---- MODULE Spec2Model ----
(***************************************************************************)
(* A model of the ralph-voice orchestration engine (src/audio_loop.py),    *)
(* its capability registry (src/mcp_handler.py) and the status poller of   *)
(* the agent panel (src/ui/widgets.py).                                    *)
(*                                                                         *)
(* The engine is four asyncio tasks on one event loop.  A task step of the *)
(* model is the code a task runs between two suspension points (await of a *)
(* thread, a queue, the session or a timer): asyncio never interleaves two *)
(* tasks inside such a stretch.                                            *)
(*                                                                         *)
(* JSON / Python values are modelled as tagged strings:                    *)
(*   JNull      None (a key that is absent from a dict)                    *)
(*   "abc123"   a commit id string, "unknown" the sentinel string          *)
(*   JInt       a JSON number (truthy, hashable, not subscriptable)        *)
(*   JList      a JSON array (truthy, not hashable)                        *)
(***************************************************************************)
EXTENDS Naturals, Sequences, FiniteSets, TLC

VARIABLES
    muted,            \* AudioLoop.muted
    playing,          \* AudioLoop.playing ("speaking")
    out_queue,        \* AudioLoop.out_queue, asyncio.Queue(maxsize=5)
    audio_in_queue,   \* AudioLoop.audio_in_queue, asyncio.Queue()
    listen_pc,        \* position of the listen_audio task
    send_pc,          \* position of the send_realtime task
    play_pc,          \* position of the play_audio task
    recv_pc,          \* position of the receive_audio task
    tool_sessions,    \* MCPClient._tool_sessions: tool name -> provider
    last_commits,     \* AudioLoop._last_commits: project -> commit
    fcs,              \* function calls of the current request still to handle
    cur,              \* the function call handle_tool_call is (or was last) handling
    turn_msgs,        \* kinds of the inbound messages of the current turn
    turn_pb,          \* playback notifications emitted during that turn
    turn_closed,      \* the turn is complete, the next has had no message yet
    pb_ends,          \* PLAYBACK_END notifications since the last PLAYBACK_START
    toggle,           \* what the last toggle_mute call did and returned
    text_call,        \* what the last send_text_message call did
    run_pc,           \* position of AudioLoop.run
    running_set,      \* AudioLoop._running (asyncio.Event) is set
    exit_stack,       \* MCPClient.exit_stack: providers whose connection is held
    servers_todo,     \* configured providers connect() has not reached yet
    session,          \* AudioLoop.session: "none", "open", "closed"
    tasks,            \* the four TaskGroup tasks: pipeline -> state
    pya,              \* AudioLoop._pya: "none", "up", "terminated"
    audio_stream,     \* AudioLoop.audio_stream, the input device stream
    play_stream,      \* play_audio's local stream, the output device stream
    run_exc,          \* the exception run() is unwinding with
    run_notes,        \* notifications run() has emitted
    failures,         \* the failures this run has met
    tracked_projects, \* AgentPanel._tracked_projects
    status_data,      \* AgentPanel.status_data, the merged status view
    poll_interval,    \* AgentPanel._poll_interval
    last_nonempty,    \* AgentPanel._last_nonempty
    now,              \* time.monotonic(), in seconds
    poll_pc,          \* position of the _poll worker
    poll_todo,        \* tracked projects the running cycle has still to query
    merged,           \* _poll's local dict
    poll_reported,    \* projects whose query reported containers, in the
                      \* running cycle or else in the last completed one
    poll_queried,     \* projects that cycle has queried -> the query succeeded
    cycle,            \* what the last completed poll cycle did
    mcp_servers,      \* connect()'s mcp_servers: the configured providers in order
    tools,            \* MCPClient.tools, the aggregated tool descriptors
    functional_tools, \* run()'s functional_tools, the declarations for the session
    event_callback,   \* AudioLoop._event_callback is set (the app is attached)
    messages,         \* the app's message queue: AudioEventMessages posted
    status_bar,       \* StatusBar.state and StatusBar.muted
    handled           \* what on_audio_event_message did with the last message

\* the 16 variables of the pipelines and the dispatch path
engineVars == << muted, playing, out_queue, audio_in_queue, listen_pc,
                 send_pc, play_pc, recv_pc, tool_sessions, last_commits, fcs,
                 cur, turn_msgs, turn_pb, turn_closed, pb_ends >>
\* the explicit user actions
userVars == << toggle, text_call >>
\* the lifecycle of run()
runVars == << run_pc, running_set, exit_stack, servers_todo, session, tasks,
              pya, audio_stream, play_stream, run_exc, run_notes, failures >>
\* the status poller of the agent panel
pollVars == << tracked_projects, status_data, poll_interval, last_nonempty,
               now, poll_pc, poll_todo, merged, poll_reported, poll_queried,
               cycle >>
\* the provider configuration, the descriptors and their declarations
declVars == << mcp_servers, tools, functional_tools >>
\* the app: the observer of the engine's notifications
appVars == << event_callback, messages, status_bar, handled >>

vars == << engineVars, userVars, runVars, pollVars, declVars, appVars >>

(***************************************************************************)
(* Bounds of the model and constants of the program.                       *)
(***************************************************************************)
\* frames the (unbounded) inbound queue holds at most in the model
MaxIn == 2
\* inbound messages of one turn, at most, in the model
MaxTurnMsgs == 2
\* out_queue = asyncio.Queue(maxsize=5)
OutQueueMax == 5
\* the clock of the poller model stops here, and advances in steps of
MaxTime == 40
TimeStep == 10
\* messages waiting in the app's queue when the engine takes a step, at most
MaxPosted == 1

(***************************************************************************)
(* Python values as tagged strings.                                        *)
(***************************************************************************)
JNull == "null"
JInt == "#12345"
JList == "#[list]"
Unknown == "unknown"

\* Python truthiness: None and "" are falsy
Truthy(v) == v \notin {JNull, ""}
\* a list cannot be a dict key (TypeError: unhashable type)
Hashable(v) == v # JList
\* v[:8] raises TypeError on a number
Sliceable(v) == v # JInt

\* dict.get(k): the value, or None
DictGet(d, k) == IF k \in DOMAIN d THEN d[k] ELSE JNull
\* d[k] = v
DictSet(d, k, v) == [x \in DOMAIN d \cup {k} |-> IF x = k THEN v ELSE d[x]]
EmptyDict == [x \in {} |-> JNull]

(***************************************************************************)
(* Notifications (EventType).  The turn log keeps the kinds an observer    *)
(* uses to follow tool calls and playback.                                 *)
(***************************************************************************)
ToolNotes == {"TOOL_CALL_START", "TOOL_CALL_RESULT", "TOOL_CALL_ERROR"}
PlaybackNotes == {"PLAYBACK_START", "PLAYBACK_END"}

\* AudioEvent(type, text, data), as far as the app reads it: the type, the
\* name and the project_dir argument of the tool call it is about, and the
\* muted flag of MUTE_CHANGED
AudioEvent(type, name, project_dir, m) ==
    [type |-> type, name |-> name, project_dir |-> project_dir, muted |-> m]
Note(type) == AudioEvent(type, "", "", FALSE)
\* data={"name": fc.name, "args": args}; the app reads
\* args.get("project_dir", "")
ToolNote(type, name, args) ==
    AudioEvent(type, name,
               IF "project_dir" \in DOMAIN args THEN args["project_dir"]
               ELSE "", FALSE)
\* the events of notifications that carry no data the app reads
Events(kinds) ==
    IF kinds = << >> THEN << >> ELSE [i \in DOMAIN kinds |-> Note(kinds[i])]
\* the events of the notifications of these kinds, emitted for a tool call
ToolEvents(kinds, name, args) ==
    IF kinds = << >> THEN << >>
    ELSE [i \in DOMAIN kinds |->
            IF kinds[i] \in {"TOOL_CALL_START", "TOOL_CALL_RESULT",
                             "TOOL_CALL_ERROR"}
            THEN ToolNote(kinds[i], name, args) ELSE Note(kinds[i])]

\* _emit, once for each of the events: if a callback is registered it is
\* called, and the app's callback posts the event to its message queue
Post(events) ==
    /\ messages' = IF event_callback THEN messages \o events ELSE messages
    /\ UNCHANGED << event_callback, status_bar, handled >>

RECURSIVE Filter(_, _)
Filter(s, S) ==
    IF s = << >> THEN << >>
    ELSE IF Head(s) \in S THEN << Head(s) >> \o Filter(Tail(s), S)
         ELSE Filter(Tail(s), S)

NoResult == [shape |-> "none", kind |-> "none", latest_commit |-> JNull,
             project |-> JNull]

\* the record kept of one function call: what was asked, what the registry
\* and the provider saw, what was emitted and what was sent to the session
NoCall == [id |-> "none", name |-> "none", args |-> EmptyDict,
           call_args |-> EmptyDict, session |-> "none", provider |-> "none",
           provider_args |-> EmptyDict, result |-> NoResult,
           cache_before |-> EmptyDict, error |-> "none",
           notes |-> << >>, response_data |-> "none", responses |-> << >>]

(***************************************************************************)
(* Capture pipeline: listen_audio                                          *)
(***************************************************************************)
\* a capture that goes on while muted
CaptureGuard_IgnoresMute == ~playing

\* if not self.playing and not self.muted
CaptureGuard == ~playing /\ ~muted

\* a queue made without maxsize is never full
QueueFull_Unbounded == FALSE

\* asyncio.Queue(maxsize=5).full(), as put() tests it
QueueFull == Len(out_queue) >= OutQueueMax

\* one chunk was read from the device; out_queue.put() inserts at once when
\* the queue has room and suspends the task when it is full
ListenRead ==
    /\ listen_pc = "read"
    /\ IF CaptureGuard
       THEN IF ~QueueFull
            THEN /\ out_queue' = Append(out_queue, "mic")
                 /\ listen_pc' = "read"
            ELSE /\ listen_pc' = "put_wait"
                 /\ UNCHANGED out_queue
       ELSE UNCHANGED << out_queue, listen_pc >>
    /\ UNCHANGED << muted, playing, audio_in_queue, send_pc, play_pc, recv_pc,
                    tool_sessions, last_commits, fcs, cur, turn_msgs,
                    turn_pb, turn_closed, pb_ends >>
    /\ UNCHANGED << userVars, runVars, pollVars, declVars, appVars >>

\* the suspended out_queue.put() resumes once the queue has room and inserts
\* the frame it was called with
ListenPutResume ==
    /\ listen_pc = "put_wait"
    /\ ~QueueFull
    /\ out_queue' = Append(out_queue, "mic")
    /\ listen_pc' = "read"
    /\ UNCHANGED << muted, playing, audio_in_queue, send_pc, play_pc, recv_pc,
                    tool_sessions, last_commits, fcs, cur, turn_msgs,
                    turn_pb, turn_closed, pb_ends >>
    /\ UNCHANGED << userVars, runVars, pollVars, declVars, appVars >>

(***************************************************************************)
(* Send pipeline: send_realtime                                            *)
(***************************************************************************)
SendGet ==
    /\ send_pc = "get"
    /\ out_queue # << >>
    /\ out_queue' = Tail(out_queue)
    /\ send_pc' = "send"
    /\ UNCHANGED << muted, playing, audio_in_queue, listen_pc, play_pc,
                    recv_pc, tool_sessions, last_commits, fcs, cur, turn_msgs,
                    turn_pb, turn_closed, pb_ends >>
    /\ UNCHANGED << userVars, runVars, pollVars, declVars, appVars >>

\* session.send_realtime_input returned
SendDone ==
    /\ send_pc = "send"
    /\ send_pc' = "get"
    /\ UNCHANGED << muted, playing, out_queue, audio_in_queue, listen_pc,
                    play_pc, recv_pc, tool_sessions, last_commits, fcs, cur,
                    turn_msgs, turn_pb, turn_closed, pb_ends >>
    /\ UNCHANGED << userVars, runVars, pollVars, declVars, appVars >>

(***************************************************************************)
(* toggle_mute                                                             *)
(***************************************************************************)
\* the record of a toggle_mute call: how many calls were made (0, 1,
\* 2 or more), muted before this call and before the previous one, the
\* value returned and the notifications emitted by this call
NoToggle == [seen |-> 0, before |-> FALSE, prev |-> FALSE, ret |-> FALSE,
             notes |-> << >>]

\* a toggle that only ever mutes
MutedAfterToggle_Mute(m) == TRUE

\* self.muted = not self.muted
MutedAfterToggle(m) == ~m

ToggleMute ==
    /\ muted' = MutedAfterToggle(muted)
    /\ toggle' = [seen |-> IF toggle.seen = 0 THEN 1 ELSE 2,
                  before |-> muted,
                  prev |-> toggle.before,
                  ret |-> muted',
                  notes |-> << [type |-> "MUTE_CHANGED",
                                muted |-> muted'] >>]
    /\ UNCHANGED << playing, out_queue, audio_in_queue, listen_pc, send_pc,
                    play_pc, recv_pc, tool_sessions, last_commits, fcs, cur,
                    turn_msgs, turn_pb, turn_closed, pb_ends >>
    /\ Post(<< AudioEvent("MUTE_CHANGED", "", "", muted') >>)
    /\ UNCHANGED << text_call, runVars, pollVars, declVars >>

(***************************************************************************)
(* Turn bookkeeping of the observer: the inbound messages of the current   *)
(* turn and the playback notifications emitted from its first message to   *)
(* its end.  A completed turn stays readable until the first message of    *)
(* the next turn arrives.                                                  *)
(***************************************************************************)
TurnMsgsNow == IF turn_closed THEN << >> ELSE turn_msgs
TurnPbNow == IF turn_closed THEN << >> ELSE turn_pb
TurnHasRoom == Len(TurnMsgsNow) < MaxTurnMsgs

\* a receive loop that hands the tool call to a task of its own and goes on
ReceiveReady_Concurrent == recv_pc \in {"recv", "call"}

\* async for response in turn: the loop takes the next message (or the end
\* of the turn) only when the body of the previous one, the awaited
\* handle_tool_call included, is over
ReceiveReady == recv_pc = "recv"

(***************************************************************************)
(* Playback pipeline: play_audio                                           *)
(***************************************************************************)
\* bytestream = await self.audio_in_queue.get()
PlayGet ==
    /\ play_pc = "get"
    /\ audio_in_queue # << >>
    /\ audio_in_queue' = Tail(audio_in_queue)
    /\ play_pc' = "write"
    /\ UNCHANGED << muted, playing, out_queue, listen_pc, send_pc, recv_pc,
                    tool_sessions, last_commits, fcs, cur, turn_msgs,
                    turn_pb, turn_closed, pb_ends >>
    /\ UNCHANGED << userVars, runVars, pollVars, declVars, appVars >>

\* if self.playing and self.audio_in_queue.empty()
GraceEnter == playing /\ audio_in_queue = << >>

\* stream.write returned
PlayWritten ==
    /\ play_pc = "write"
    /\ play_pc' = IF GraceEnter THEN "grace" ELSE "get"
    /\ UNCHANGED << muted, playing, out_queue, audio_in_queue, listen_pc,
                    send_pc, recv_pc, tool_sessions, last_commits, fcs, cur,
                    turn_msgs, turn_pb, turn_closed, pb_ends >>
    /\ UNCHANGED << userVars, runVars, pollVars, declVars, appVars >>

\* a fallback that clears without looking at the queue again
GraceStillEmpty_NoRecheck == TRUE

\* after the grace sleep: if self.audio_in_queue.empty()
GraceStillEmpty == audio_in_queue = << >>

\* asyncio.sleep(0.08) returned
PlayGraceEnd ==
    /\ play_pc = "grace"
    /\ play_pc' = "get"
    /\ IF GraceStillEmpty
       THEN /\ playing' = FALSE
            /\ pb_ends' = pb_ends + 1
            /\ turn_pb' = IF turn_closed THEN turn_pb
                          ELSE Append(turn_pb, "PLAYBACK_END")
            /\ Post(<< Note("PLAYBACK_END") >>)
       ELSE UNCHANGED << playing, pb_ends, turn_pb, appVars >>
    /\ UNCHANGED << muted, out_queue, audio_in_queue, listen_pc, send_pc,
                    recv_pc, tool_sessions, last_commits, fcs, cur,
                    turn_msgs, turn_closed >>
    /\ UNCHANGED << userVars, runVars, pollVars, declVars >>

(***************************************************************************)
(* Receive/demux pipeline: receive_audio                                   *)
(***************************************************************************)
\* a start notification for every audio message
PlaybackStarts_Always == TRUE

\* if not self.playing
PlaybackStarts == ~playing

\* a message carrying audio data
RecvAudio ==
    /\ ReceiveReady
    /\ TurnHasRoom
    /\ Len(audio_in_queue) < MaxIn
    /\ IF PlaybackStarts
       THEN /\ turn_pb' = Append(TurnPbNow, "PLAYBACK_START")
            /\ pb_ends' = 0
            /\ Post(<< Note("PLAYBACK_START") >>)
       ELSE /\ turn_pb' = TurnPbNow
            /\ UNCHANGED << pb_ends, appVars >>
    /\ playing' = TRUE
    /\ audio_in_queue' = Append(audio_in_queue, "pcm")
    /\ turn_msgs' = Append(TurnMsgsNow, "audio")
    /\ turn_closed' = FALSE
    /\ UNCHANGED << muted, out_queue, listen_pc, send_pc, play_pc, recv_pc,
                    tool_sessions, last_commits, fcs, cur >>
    /\ UNCHANGED << userVars, runVars, pollVars, declVars >>

\* a text fragment that ends the playback
SpeakingAfterText_Cleared == FALSE

\* if text := response.text: the notification, and no assignment
SpeakingAfterText == playing

\* a message carrying a text fragment: GEMINI_TEXT is emitted
RecvText ==
    /\ ReceiveReady
    /\ TurnHasRoom
    /\ turn_msgs' = Append(TurnMsgsNow, "text")
    /\ turn_pb' = TurnPbNow
    /\ turn_closed' = FALSE
    /\ playing' = SpeakingAfterText
    /\ Post(<< Note("GEMINI_TEXT") >>)
    /\ UNCHANGED << muted, out_queue, audio_in_queue, listen_pc,
                    send_pc, play_pc, recv_pc, tool_sessions, last_commits,
                    fcs, cur, pb_ends >>
    /\ UNCHANGED << userVars, runVars, pollVars, declVars >>

\* a message whose server_content carries executable code or its result:
\* the formatted block is emitted as GEMINI_TEXT
RecvCode ==
    /\ ReceiveReady
    /\ TurnHasRoom
    /\ turn_msgs' = Append(TurnMsgsNow, "code")
    /\ turn_pb' = TurnPbNow
    /\ turn_closed' = FALSE
    /\ Post(<< Note("GEMINI_TEXT") >>)
    /\ UNCHANGED << muted, playing, out_queue, audio_in_queue, listen_pc,
                    send_pc, play_pc, recv_pc, tool_sessions, last_commits,
                    fcs, cur, pb_ends >>
    /\ UNCHANGED << userVars, runVars, pollVars, declVars >>

\* if self.playing (after the drain loop)
RecvClearGuard == playing

\* the end of receive_audio's loop body: the queue is empty, speaking is
\* cleared and the task goes on to the next turn
EndOfTurn ==
    /\ IF RecvClearGuard
       THEN /\ playing' = FALSE
            /\ pb_ends' = pb_ends + 1
            /\ turn_pb' = Append(TurnPbNow, "PLAYBACK_END")
            /\ Post(<< Note("PLAYBACK_END") >>)
       ELSE /\ turn_pb' = TurnPbNow
            /\ UNCHANGED << playing, pb_ends, appVars >>
    /\ turn_msgs' = TurnMsgsNow
    /\ turn_closed' = TRUE
    /\ recv_pc' = "recv"

\* while not self.audio_in_queue.empty()
DrainDone == audio_in_queue = << >>

\* the turn's stream ends; the drain loop is entered without suspending
TurnComplete ==
    /\ ReceiveReady
    /\ IF DrainDone
       THEN EndOfTurn
       ELSE /\ recv_pc' = "drain"
            /\ turn_msgs' = TurnMsgsNow
            /\ turn_pb' = TurnPbNow
            /\ turn_closed' = FALSE
            /\ UNCHANGED << playing, pb_ends, appVars >>
    /\ UNCHANGED << muted, out_queue, audio_in_queue, listen_pc, send_pc,
                    play_pc, tool_sessions, last_commits, fcs, cur >>
    /\ UNCHANGED << userVars, runVars, pollVars, declVars >>

\* asyncio.sleep(0.05) returned and the queue is found empty
DrainPoll ==
    /\ recv_pc = "drain"
    /\ DrainDone
    /\ EndOfTurn
    /\ UNCHANGED << muted, out_queue, audio_in_queue, listen_pc, send_pc,
                    play_pc, tool_sessions, last_commits, fcs, cur >>
    /\ UNCHANGED << userVars, runVars, pollVars, declVars >>

(***************************************************************************)
(* Capability registry: MCPClient.call_tool                                *)
(***************************************************************************)
\* a lookup that falls back to the ralph provider for a name it does not know
LookupSession_Fallback(name) ==
    IF name \in DOMAIN tool_sessions THEN tool_sessions[name] ELSE "ralph"

\* session = self._tool_sessions.get(name)
LookupSession(name) == DictGet(tool_sessions, name)

(***************************************************************************)
(* Commit cache: AudioLoop._cache_latest_commit                            *)
(*                                                                         *)
(* A provider result is [shape, kind, latest_commit, project]: shape is    *)
(* the Python shape of the returned value ("str", "list" of content        *)
(* blocks whose first text block holds the body, "object" with a content   *)
(* field), kind is what the text body is ("object": a JSON object with     *)
(* the two fields, "nonobject": JSON that is no object, "notjson",         *)
(* "empty").                                                               *)
(***************************************************************************)
\* text, as the isinstance chain finds it; "if not text: return"
HasText(r) == r.shape \in {"list", "str"} /\ r.kind # "empty"

\* project = args.get("project_dir") or data.get("project")
CacheProject(args, r) ==
    IF Truthy(DictGet(args, "project_dir")) THEN args["project_dir"]
    ELSE r.project

\* a test that lets the placeholder commit through
CacheStores_KeepsUnknown(args, r) ==
    /\ Truthy(r.latest_commit)
    /\ Truthy(CacheProject(args, r))

\* if commit and project and commit != "unknown"
CacheStores(args, r) ==
    /\ Truthy(r.latest_commit)
    /\ Truthy(CacheProject(args, r))
    /\ r.latest_commit # Unknown

\* the outcome of _cache_latest_commit: the cache it leaves, whether INFO
\* was emitted, and whether an exception left it (JSONDecodeError and
\* AttributeError are swallowed, anything else propagates)
CacheLatestCommit(args, r, cache) ==
    IF ~HasText(r) \/ r.kind # "object" \/ ~CacheStores(args, r)
    THEN [cache |-> cache, info |-> FALSE, raised |-> FALSE]
    ELSE IF ~Hashable(CacheProject(args, r))
    THEN [cache |-> cache, info |-> FALSE, raised |-> TRUE]
    ELSE IF ~Sliceable(r.latest_commit)
    THEN [cache |-> DictSet(cache, CacheProject(args, r), r.latest_commit),
          info |-> FALSE, raised |-> TRUE]
    ELSE [cache |-> DictSet(cache, CacheProject(args, r), r.latest_commit),
          info |-> TRUE, raised |-> FALSE]

(***************************************************************************)
(* Tool-call dispatch: AudioLoop.handle_tool_call                          *)
(***************************************************************************)
\* an injection that does not look at the tool's name
InjectCandidate_AnyTool(name, args) == "since_commit" \notin DOMAIN args

\* if fc.name == "ralph_changes" and "since_commit" not in args
InjectCandidate(name, args) ==
    name = "ralph_changes" /\ "since_commit" \notin DOMAIN args

\* cached = self._last_commits.get(args.get("project_dir", ""))
CachedFor(args) ==
    LET project_dir == IF "project_dir" \in DOMAIN args
                       THEN args["project_dir"] ELSE ""
    IN DictGet(last_commits, project_dir)

\* if cached: args["since_commit"] = cached
Injects(name, args) == InjectCandidate(name, args) /\ Truthy(CachedFor(args))

FinalArgs(name, args) ==
    IF Injects(name, args) THEN DictSet(args, "since_commit", CachedFor(args))
    ELSE args

\* the notifications emitted for the call since the record `before`
NewNotes(before, after) ==
    SubSeq(after.notes, Len(before.notes) + 1, Len(after.notes))

\* FunctionResponse(name=fc.name, id=fc.id, response=response_data)
ToolResponse(c) == [id |-> c.id, name |-> c.name, body |-> c.response_data]

\* self.session.send_tool_response(...) is called with the response built
\* from the call: the session has the response from here on
SendToolResponse(c) ==
    [c EXCEPT !.responses = Append(c.responses, ToolResponse(c))]

\* one iteration of the for loop, from its top to its first suspension:
\* the auto-injection, TOOL_CALL_START and the registry lookup.  The INFO
\* f-string slices the cached value and is outside the try block.
BeginCall(fc, rest) ==
    LET inj == Injects(fc.name, fc.args)
        crash == inj /\ ~Sliceable(CachedFor(fc.args))
        a == FinalArgs(fc.name, fc.args)
        base == [NoCall EXCEPT !.id = fc.id, !.name = fc.name,
                               !.args = fc.args, !.cache_before = last_commits]
        n0 == IF inj THEN << "INFO" >> ELSE << >>
    IN  /\ fcs' = rest
        /\ IF crash
           THEN /\ recv_pc' = "failed"
                /\ cur' = [base EXCEPT !.error = "TypeError"]
           ELSE IF LookupSession(fc.name) = JNull
           THEN /\ recv_pc' = "respond"
                /\ cur' = SendToolResponse(
                             [base EXCEPT
                                !.call_args = a,
                                !.error = "ValueError: Unknown tool",
                                !.notes = n0 \o << "TOOL_CALL_START",
                                                   "TOOL_CALL_ERROR" >>,
                                !.response_data = "error"])
           ELSE /\ recv_pc' = "call"
                /\ cur' = [base EXCEPT
                             !.call_args = a,
                             !.session = LookupSession(fc.name),
                             !.provider = "pending",
                             !.provider_args = a,
                             !.notes = n0 \o << "TOOL_CALL_START" >>]
        /\ Post(ToolEvents(cur'.notes, fc.name, a))

\* a message carrying a tool-call request
RecvToolCall(requests) ==
    /\ ReceiveReady
    /\ TurnHasRoom
    /\ \E req \in requests : BeginCall(Head(req), Tail(req))
    /\ turn_msgs' = Append(TurnMsgsNow, "tool_call")
    /\ turn_pb' = TurnPbNow
    /\ turn_closed' = FALSE
    /\ UNCHANGED << muted, playing, out_queue, audio_in_queue, listen_pc,
                    send_pc, play_pc, tool_sessions, last_commits, pb_ends >>
    /\ UNCHANGED << userVars, runVars, pollVars, declVars >>

\* if fc.name in ("ralph_changes", "ralph_status")
CachesCommit(name) == name \in {"ralph_changes", "ralph_status"}

\* the provider's call_tool returned: TOOL_CALL_RESULT, then the cache
\* update inside the same try block
ProviderReturns(results) ==
    /\ recv_pc = "call"
    /\ \E r \in results :
          LET cc == IF CachesCommit(cur.name)
                    THEN CacheLatestCommit(cur.call_args, r, last_commits)
                    ELSE [cache |-> last_commits, info |-> FALSE,
                          raised |-> FALSE]
              n1 == cur.notes \o << "TOOL_CALL_RESULT" >>
                      \o (IF cc.info THEN << "INFO" >> ELSE << >>)
          IN  /\ last_commits' = cc.cache
              /\ cur' = SendToolResponse(
                           [cur EXCEPT
                              !.provider = "returned",
                              !.result = r,
                              !.error = IF cc.raised THEN "TypeError"
                                        ELSE "none",
                              !.notes = IF cc.raised
                                        THEN n1 \o << "TOOL_CALL_ERROR" >>
                                        ELSE n1,
                              !.response_data = IF cc.raised THEN "error"
                                                ELSE "result"])
    /\ Post(ToolEvents(NewNotes(cur, cur'), cur.name, cur.call_args))
    /\ recv_pc' = "respond"
    /\ UNCHANGED << muted, playing, out_queue, audio_in_queue, listen_pc,
                    send_pc, play_pc, tool_sessions, fcs, turn_msgs, turn_pb,
                    turn_closed, pb_ends >>
    /\ UNCHANGED << userVars, runVars, pollVars, declVars >>

\* the provider's call_tool raised: except Exception
ProviderRaises ==
    /\ recv_pc = "call"
    /\ cur' = SendToolResponse(
                 [cur EXCEPT !.provider = "raised",
                             !.error = "ProviderError",
                             !.notes = cur.notes \o << "TOOL_CALL_ERROR" >>,
                             !.response_data = "error"])
    /\ Post(ToolEvents(NewNotes(cur, cur'), cur.name, cur.call_args))
    /\ recv_pc' = "respond"
    /\ UNCHANGED << muted, playing, out_queue, audio_in_queue, listen_pc,
                    send_pc, play_pc, tool_sessions, last_commits, fcs,
                    turn_msgs, turn_pb, turn_closed, pb_ends >>
    /\ UNCHANGED << userVars, runVars, pollVars, declVars >>

\* session.send_tool_response returned; the for loop goes on with the next
\* function call, or the task goes back to the turn's stream
ToolResponseDone ==
    /\ recv_pc = "respond"
    /\ IF fcs = << >>
       THEN /\ recv_pc' = "recv"
            /\ UNCHANGED << fcs, cur, appVars >>
       ELSE BeginCall(Head(fcs), Tail(fcs))
    /\ UNCHANGED << muted, playing, out_queue, audio_in_queue, listen_pc,
                    send_pc, play_pc, tool_sessions, last_commits, turn_msgs,
                    turn_pb, turn_closed, pb_ends >>
    /\ UNCHANGED << userVars, runVars, pollVars, declVars >>

(***************************************************************************)
(* Inputs.  A function call is [id, name, args]; a request is a sequence   *)
(* of function calls.                                                      *)
(***************************************************************************)
\* the arguments dict with the keys that are given (JNull: key absent)
MkArgs(pd, sc) ==
    [k \in (IF pd = JNull THEN {} ELSE {"project_dir"})
             \cup (IF sc = JNull THEN {} ELSE {"since_commit"})
       |-> IF k = "project_dir" THEN pd ELSE sc]

MkResult(shape, kind, commit, project) ==
    [shape |-> shape, kind |-> kind, latest_commit |-> commit,
     project |-> project]

\* the tools the ralph provider lists; "no_such_tool" is listed by nobody
RalphTools == {"ralph_launch", "ralph_stop", "ralph_status", "ralph_changes",
               "ralph_logs", "ralph_prd_read", "ralph_prd_update"}
RalphRegistry == [n \in RalphTools |-> "ralph"]
\* a provider that lists fewer tools
SmallRegistry == [n \in {"ralph_status", "ralph_logs"} |-> "ralph"]

ArgDicts == { MkArgs(pd, sc) : pd \in {JNull, "/p", "/q"},
                               sc \in {JNull, "feed01"} }
Calls(id) == { [id |-> id, name |-> n, args |-> a] :
                 n \in {"ralph_changes", "ralph_status", "ralph_logs",
                        "no_such_tool"},
                 a \in ArgDicts }

Shapes == {"str", "list", "object"}
Bodies == { MkResult("none", k, JNull, JNull) :
              k \in {"notjson", "nonobject", "empty"} }
          \cup { MkResult("none", "object", c, p) :
                   c \in {JNull, "abc123", Unknown, JInt},
                   p \in {JNull, "/p", JList} }

\* the engine as a whole: the session asks for a status, the provider
\* answers with the object the MCP client returns or fails
EngineRequests ==
    { << [id |-> "call-1", name |-> "ralph_status",
          args |-> MkArgs("/p", JNull)] >> }
EngineResults == { MkResult("object", "object", "abc123", JNull) }

\* the dispatch path alone: every call and every result
DispatchRequests ==
    { << c >> : c \in Calls("call-1") }
    \cup { << c, d >> :
             c \in { x \in Calls("call-1") :
                       /\ x.name \in {"ralph_status", "no_such_tool"}
                       /\ x.args = MkArgs("/p", JNull) },
             d \in { x \in Calls("call-2") :
                       /\ x.name \in {"ralph_changes", "ralph_logs"}
                       /\ x.args = MkArgs("/p", JNull) } }
DispatchResults == { [b EXCEPT !.shape = sh] : b \in Bodies, sh \in Shapes }

(***************************************************************************)
(* Explicit user action: send_text_message                                 *)
(***************************************************************************)
\* the record of a send_text_message call: the notifications it emitted,
\* whether the content reached the session, and whether it raised
NoText == [called |-> FALSE, notes |-> << >>, delivered |-> FALSE,
           raised |-> FALSE]

\* if not self.session: return
SessionMissing == session = "none"

\* the call as a whole: session.send_client_content succeeds only on an
\* open session, and may fail on it too (the transport drops); except
\* Exception turns a failure into an ERROR notification
SendTextMessage ==
    /\ \E sent \in BOOLEAN :
          text_call' =
             IF SessionMissing
             THEN [called |-> TRUE, notes |-> << >>, delivered |-> FALSE,
                   raised |-> FALSE]
             ELSE IF session = "open" /\ sent
             THEN [called |-> TRUE, notes |-> << "USER_TEXT" >>,
                   delivered |-> TRUE, raised |-> FALSE]
             ELSE [called |-> TRUE, notes |-> << "USER_TEXT", "ERROR" >>,
                   delivered |-> FALSE, raised |-> FALSE]
    /\ Post(Events(text_call'.notes))
    /\ UNCHANGED << engineVars, toggle, runVars, pollVars, declVars >>

(***************************************************************************)
(* Descriptor translation: src/schema.py                                   *)
(*                                                                         *)
(* A JSON value is [t, s, e]: t is its Python type, s the text of a        *)
(* string or a boolean, e the entries of a dict or a list as (key, value)  *)
(* pairs.  The pairs of a dict are in insertion order, which is the order  *)
(* the loop of convert_property takes them in; the pairs of a list have    *)
(* the key "".                                                             *)
(***************************************************************************)
Str(s) == [t |-> "str", s |-> s, e |-> << >>]
Bool(b) == [t |-> "bool", s |-> IF b THEN "true" ELSE "false", e |-> << >>]
Dict(pairs) == [t |-> "dict", s |-> "", e |-> pairs]
List(elems) ==
    [t |-> "list", s |-> "",
     e |-> IF elems = << >> THEN << >>
           ELSE [i \in DOMAIN elems |-> << "", elems[i] >>]]
JNone == [t |-> "none", s |-> "", e |-> << >>]

\* the elements of a list, in order
ListItems(x) ==
    IF x.e = << >> THEN << >> ELSE [i \in DOMAIN x.e |-> x.e[i][2]]

\* isinstance(x, dict), isinstance(x, list)
IsDict(x) == x.t = "dict"
IsList(x) == x.t = "list"

\* bool(x): None, an empty dict, an empty list and "" are falsy
JsonTruthy(x) ==
    CASE x.t \in {"dict", "list"} -> x.e # << >>
      [] x.t = "str" -> x.s # ""
      [] x.t = "bool" -> x.s = "true"
      [] OTHER -> FALSE

Elems(s) == { s[i] : i \in DOMAIN s }
\* k in d
PairsKeys(pairs) == { pairs[i][1] : i \in DOMAIN pairs }
\* d[k]
PairsGet(pairs, k) ==
    pairs[CHOOSE i \in DOMAIN pairs : pairs[i][1] = k][2]
\* d[k] = v: a key the dict holds keeps its place, a new one comes last
PairsSet(pairs, k, v) ==
    IF k \in PairsKeys(pairs)
    THEN [i \in DOMAIN pairs |->
            IF pairs[i][1] = k THEN << k, v >> ELSE pairs[i]]
    ELSE Append(pairs, << k, v >>)

\* _SUPPORTED_FIELDS, _STRIP_FIELDS
SUPPORTED_FIELDS == {"type", "description", "enum", "required", "items",
                     "properties", "nullable"}
STRIP_FIELDS == {"$schema", "additionalProperties", "$ref", "$defs",
                 "default", "title"}

\* non_null = [t for t in value if t != "null"]
NonNull(value) == SelectSeq(value, LAMBDA t : t # Str("null"))

\* non_null[0] if non_null else "STRING"
UnionType(value) ==
    IF NonNull(value) # << >> THEN NonNull(value)[1] ELSE Str("STRING")

RECURSIVE convert_property(_)
RECURSIVE ConvertKeys(_, _)

\* {prop_name: convert_property(prop_schema) for ... in value.items()}
ConvertProperties(pairs) ==
    IF pairs = << >> THEN << >>
    ELSE [i \in DOMAIN pairs |->
            << pairs[i][1], convert_property(pairs[i][2]) >>]

\* the for loop of convert_property over the pairs that are left, with the
\* result built so far
ConvertKeys(pairs, result) ==
    IF pairs = << >> THEN result
    ELSE LET key == Head(pairs)[1]
             value == Head(pairs)[2]
             r == IF key \in STRIP_FIELDS THEN result
                  ELSE IF key = "type" /\ IsList(value)
                  THEN PairsSet(
                         PairsSet(result, "type",
                                  UnionType(ListItems(value))),
                         "nullable",
                         Bool(Str("null") \in Elems(ListItems(value))))
                  ELSE IF key = "properties"
                  THEN PairsSet(result, "properties",
                                Dict(ConvertProperties(value.e)))
                  ELSE IF key = "items"
                  THEN PairsSet(result, "items", convert_property(value))
                  ELSE IF key \in SUPPORTED_FIELDS
                  THEN PairsSet(result, key, value)
                  ELSE result
         IN  ConvertKeys(Tail(pairs), r)

\* convert_property(schema): a value that is no dict is returned as it is
convert_property(schema) ==
    IF ~IsDict(schema) THEN schema
    ELSE Dict(ConvertKeys(schema.e, << >>))

\* value.items() raises AttributeError when a "properties" value is no dict
RECURSIVE ConvertRaises(_)
ConvertRaises(schema) ==
    /\ IsDict(schema)
    /\ \E i \in DOMAIN schema.e :
          LET key == schema.e[i][1]
              value == schema.e[i][2]
          IN  \/ /\ key = "properties"
                 /\ ~IsDict(value)
              \/ /\ key = "properties"
                 /\ IsDict(value)
                 /\ \E j \in DOMAIN value.e : ConvertRaises(value.e[j][2])
              \/ /\ key = "items"
                 /\ ConvertRaises(value)

\* "properties" in input_schema and input_schema["properties"]
HasProperties(input_schema) ==
    /\ "properties" \in PairsKeys(input_schema.e)
    /\ JsonTruthy(PairsGet(input_schema.e, "properties"))

\* params, as mcp_tool_to_gemini builds it from the root of the schema
ToolParams(input_schema) ==
    LET p1 == IF "type" \in PairsKeys(input_schema.e)
              THEN << << "type", PairsGet(input_schema.e, "type") >> >>
              ELSE << >>
        p2 == IF HasProperties(input_schema)
              THEN PairsSet(p1, "properties",
                     Dict(ConvertProperties(
                            PairsGet(input_schema.e, "properties").e)))
              ELSE p1
    IN  IF "required" \in PairsKeys(input_schema.e)
        THEN PairsSet(p2, "required", PairsGet(input_schema.e, "required"))
        ELSE p2

\* mcp_tool_to_gemini(tool), for a tool [name, description, inputSchema]
mcp_tool_to_gemini(tool) ==
    LET decl == << << "name", Str(tool.name) >>,
                   << "description", Str(tool.description) >> >>
    IN  IF ~JsonTruthy(tool.inputSchema) THEN Dict(decl)
        ELSE IF ToolParams(tool.inputSchema) # << >>
        THEN Dict(Append(decl, << "parameters",
                                  Dict(ToolParams(tool.inputSchema)) >>))
        ELSE Dict(decl)

\* mcp_tool_to_gemini(tool) raises
ToolRaises(tool) ==
    /\ JsonTruthy(tool.inputSchema)
    /\ HasProperties(tool.inputSchema)
    /\ LET props == PairsGet(tool.inputSchema.e, "properties")
       IN  \/ ~IsDict(props)
           \/ \E j \in DOMAIN props.e : ConvertRaises(props.e[j][2])

\* functional_tools = [mcp_tool_to_gemini(tool) for tool in
\* self.mcp_client.tools]
Declarations(ts) ==
    IF ts = << >> THEN << >>
    ELSE [i \in DOMAIN ts |-> mcp_tool_to_gemini(ts[i])]

\* run() between the return of connect() and the session: the translation
\* of every descriptor and the INFO notification.  A translation that
\* raises leaves run(), which is not yet in its try block.
Declare(ts) ==
    IF \E i \in DOMAIN ts : ToolRaises(ts[i])
    THEN /\ run_pc' = "raised"
         /\ run_exc' = "AttributeError"
         /\ failures' = failures \cup {"translation"}
         /\ UNCHANGED << run_notes, functional_tools, appVars >>
    ELSE /\ functional_tools' = Declarations(ts)
         /\ run_notes' = Append(run_notes, "INFO")
         /\ Post(<< Note("INFO") >>)
         /\ run_pc' = "session_connect"
         /\ UNCHANGED << run_exc, failures >>

(***************************************************************************)
(* Parameter schemas: JSON Schema as tool providers send it.  A node has   *)
(* a type (a name, or a two-element union with "null"), may carry fields   *)
(* the target does and does not accept, and nests through properties and   *)
(* items (one schema, or a list of schemas for a tuple) up to MaxDepth.    *)
(***************************************************************************)
MaxDepth == 1

TypeValues == { Str("string"),
                List(<< Str("string"), Str("null") >>),
                List(<< Str("null"), Str("integer") >>) }
LeafExtras == { << >>,
                << << "title", Str("T") >>, << "description", Str("d") >> >>,
                << << "format", Str("uri") >>, << "default", JNone >> >>,
                << << "nullable", Bool(FALSE) >> >> }
Leaves == { Dict(<< << "type", tv >> >> \o ex) :
              tv \in TypeValues, ex \in LeafExtras }

RECURSIVE SchemaNodes(_)
SchemaNodes(d) ==
    IF d = 0 THEN Leaves
    ELSE LET sub == SchemaNodes(d - 1)
         IN  sub
             \cup { Dict(<< << "type", Str("object") >>,
                            << "properties", Dict(<< << "a", n >> >>) >>,
                            << "additionalProperties", Bool(FALSE) >> >>) :
                      n \in sub }
             \cup { Dict(<< << "type", List(<< Str("array"),
                                               Str("null") >>) >>,
                            << "items", n >> >>) : n \in sub }
             \cup { Dict(<< << "type", Str("array") >>,
                            << "items", List(<< n >>) >> >>) : n \in sub }
             \cup { Dict(<< << "type", Str("object") >>,
                            << "properties", JNone >> >>) }

RootTypes == { Str("object"), List(<< Str("object"), Str("null") >>) }

\* the tools whose translation is checked: every node under a root of
\* either type, and a tool without parameters
SchemaTools ==
    { [name |-> "tool", description |-> "d",
       inputSchema |->
          Dict(<< << "$schema", Str("draft-07") >>,
                  << "type", rt >>,
                  << "properties", Dict(<< << "x", n >> >>) >>,
                  << "required", List(<< Str("x") >>) >> >>)] :
        rt \in RootTypes, n \in SchemaNodes(MaxDepth) }
    \cup { [name |-> "tool", description |-> "d",
            inputSchema |-> Dict(<< >>)] }

\* the schema of the tools of the providers of a run
PlainSchema ==
    Dict(<< << "type", Str("object") >>,
            << "properties",
               Dict(<< << "project_dir",
                          Dict(<< << "type", Str("string") >>,
                                  << "title", Str("Project Dir") >> >>) >> >>) >>,
            << "required", List(<< Str("project_dir") >>) >> >>)

\* run() has the descriptors and translates them
TranslateTools ==
    /\ run_pc = "connected"
    /\ Declare(tools)
    /\ UNCHANGED << engineVars, userVars, running_set, exit_stack,
                    servers_todo, session, tasks, pya, audio_stream,
                    play_stream, pollVars, mcp_servers, tools >>

(***************************************************************************)
(* Engine lifecycle: AudioLoop.run, AudioLoop.shutdown, MCPClient.connect  *)
(* and MCPClient.close.                                                    *)
(*                                                                         *)
(* run_pc: "init" (run() not entered), "connect" (inside                   *)
(* mcp_client.connect), "session_connect" (entering the session context),  *)
(* "wait" (blocked on _running.wait(), pipelines started), "tg_exit" (the  *)
(* TaskGroup waits for its tasks), "session_exit" (the session context     *)
(* closes), "closing" (await mcp_client.close() in the finally block),     *)
(* "returned", "raised".                                                   *)
(* A task is "none", "running", "cancelling" (cancel() was called, the     *)
(* CancelledError is not delivered yet), "cancelled" or "failed".          *)
(***************************************************************************)
\* tg.create_task(...), four times
Pipelines == {"send", "listen", "receive", "play"}

\* mcp_config.json: the providers, in the order connect() takes them, and
\* the tools each lists
Servers == << "ralph", "aux" >>
ServerTools(s) == IF s = "ralph" THEN RalphTools
                  ELSE {"aux_lookup", "ralph_logs"}

\* response.tools: the descriptors a provider lists, in its order
Descriptor(n) == [name |-> n, description |-> "d", inputSchema |-> PlainSchema]
ToolList(s) ==
    IF s = "ralph"
    THEN << Descriptor("ralph_launch"), Descriptor("ralph_stop"),
            Descriptor("ralph_status"), Descriptor("ralph_changes"),
            Descriptor("ralph_logs"), Descriptor("ralph_prd_read"),
            Descriptor("ralph_prd_update") >>
    ELSE << Descriptor("aux_lookup"), Descriptor("ralph_logs") >>

\* a registration that keeps the provider a name already has
RegisterTools_FirstWins(reg, s) ==
    [n \in DOMAIN reg \cup ServerTools(s) |->
        IF n \in DOMAIN reg THEN reg[n] ELSE s]

\* for tool in response.tools: self._tool_sessions[tool.name] = session
RegisterTools(reg, s) ==
    [n \in DOMAIN reg \cup ServerTools(s) |->
        IF n \in ServerTools(s) THEN s ELSE reg[n]]

\* self._pya = pyaudio.PyAudio(); self._client = genai.Client(...);
\* connect() opens the config and starts on the first provider
RunStart ==
    /\ run_pc = "init"
    /\ pya' = "up"
    /\ servers_todo' = mcp_servers
    /\ run_pc' = "connect"
    /\ UNCHANGED << engineVars, userVars, running_set, exit_stack, session,
                    tasks, audio_stream, play_stream, run_exc, run_notes,
                    failures, pollVars, declVars, appVars >>

\* one iteration of connect()'s loop succeeds; after the last one connect()
\* returns, run() translates the descriptors, emits INFO and goes on to open
\* the session
ConnectServer ==
    /\ run_pc = "connect"
    /\ servers_todo # << >>
    /\ exit_stack' = exit_stack \cup {Head(servers_todo)}
    /\ tool_sessions' = RegisterTools(tool_sessions, Head(servers_todo))
    /\ tools' = tools \o ToolList(Head(servers_todo))
    /\ servers_todo' = Tail(servers_todo)
    /\ IF Tail(servers_todo) = << >>
       THEN Declare(tools')
       ELSE UNCHANGED << run_pc, run_notes, run_exc, failures,
                         functional_tools, appVars >>
    /\ UNCHANGED << muted, playing, out_queue, audio_in_queue, listen_pc,
                    send_pc, play_pc, recv_pc, last_commits, fcs, cur,
                    turn_msgs, turn_pb, turn_closed, pb_ends, userVars,
                    running_set, session, tasks, pya, audio_stream,
                    play_stream, pollVars, mcp_servers >>

\* one iteration of connect()'s loop raises: at stdio_client (nothing of
\* this provider is held) or later, at ClientSession or initialize (its
\* transport is already on the exit stack).  The call of connect() is
\* outside run()'s try block: the exception leaves run() at once.
ConnectFails ==
    /\ run_pc = "connect"
    /\ servers_todo # << >>
    /\ \E held \in BOOLEAN :
          exit_stack' = IF held THEN exit_stack \cup {Head(servers_todo)}
                        ELSE exit_stack
    /\ run_exc' = "ConnectError"
    /\ failures' = failures \cup {"provider_connect"}
    /\ run_pc' = "raised"
    /\ UNCHANGED << engineVars, userVars, running_set, servers_todo, session,
                    tasks, pya, audio_stream, play_stream, run_notes,
                    pollVars, declVars, appVars >>

\* the finally block up to its await: the input stream is closed if
\* listen_audio had stored it, and PyAudio.terminate() closes every stream
\* the instance still has open, play_audio's output stream included
CloseStream(st) == IF st = "open" THEN "closed" ELSE st
ReleaseDevice ==
    /\ audio_stream' = CloseStream(audio_stream)
    /\ play_stream' = CloseStream(play_stream)
    /\ pya' = "terminated"

\* _abort(): cancel() on every task that is not done
AbortTasks(ts) ==
    [t \in Pipelines |-> IF ts[t] = "running" THEN "cancelling" ELSE ts[t]]

\* the session context is entered: GEMINI_CONNECTED, the queues and the
\* four tasks are created, run() awaits _running.wait().  If the event is
\* already set the await returns at once, CancelledError is raised and the
\* TaskGroup cancels the tasks before their first step.
SessionConnects ==
    /\ run_pc = "session_connect"
    /\ session' = "open"
    /\ run_notes' = Append(run_notes, "GEMINI_CONNECTED")
    /\ IF running_set
       THEN /\ tasks' = [t \in Pipelines |-> "cancelling"]
            /\ run_pc' = "tg_exit"
       ELSE /\ tasks' = [t \in Pipelines |-> "running"]
            /\ run_pc' = "wait"
    /\ Post(<< Note("GEMINI_CONNECTED") >>)
    /\ UNCHANGED << engineVars, userVars, running_set, exit_stack,
                    servers_todo, pya, audio_stream, play_stream, run_exc,
                    failures, pollVars, declVars >>

\* except asyncio.CancelledError / except ExceptionGroup: the notification
\* run() emits for the exception that reaches its except clauses
ExceptNotes_Silent(exc) == << >>
ExceptNotes(exc) == IF exc = "ExceptionGroup" THEN << "ERROR" >> ELSE << >>
\* the exception that is left after the except clauses
ExceptLeaves(exc) ==
    IF exc \in {"CancelledError", "ExceptionGroup"} THEN "none" ELSE exc

\* entering the session context raises (the session cannot be connected):
\* the except clauses, then the finally block up to await close()
SessionConnectFails ==
    /\ run_pc = "session_connect"
    /\ failures' = failures \cup {"session_connect"}
    /\ run_notes' = run_notes \o ExceptNotes("ConnectError")
    /\ run_exc' = ExceptLeaves("ConnectError")
    /\ ReleaseDevice
    /\ run_pc' = "closing"
    /\ Post(Events(ExceptNotes("ConnectError")))
    /\ UNCHANGED << engineVars, userVars, running_set, exit_stack,
                    servers_todo, session, tasks, pollVars, declVars >>

\* shutdown(): self._running.set()
Shutdown ==
    /\ ~running_set
    /\ running_set' = TRUE
    /\ UNCHANGED << engineVars, userVars, run_pc, exit_stack, servers_todo,
                    session, tasks, pya, audio_stream, play_stream, run_exc,
                    run_notes, failures, pollVars, declVars, appVars >>

\* _running.wait() returns: raise asyncio.CancelledError("Shutdown
\* requested"); the TaskGroup's __aexit__ cancels the tasks
RunWakes ==
    /\ run_pc = "wait"
    /\ running_set
    /\ tasks' = AbortTasks(tasks)
    /\ run_pc' = "tg_exit"
    /\ UNCHANGED << engineVars, userVars, running_set, exit_stack,
                    servers_todo, session, pya, audio_stream, play_stream,
                    run_exc, run_notes, failures, pollVars, declVars, appVars >>

\* listen_audio from its start: MIC_READY, and the input stream is opened
\* and stored
ListenOpens ==
    /\ tasks["listen"] = "running"
    /\ audio_stream = "none"
    /\ audio_stream' = "open"
    /\ Post(<< Note("MIC_READY") >>)
    /\ UNCHANGED << engineVars, userVars, run_pc, running_set, exit_stack,
                    servers_todo, session, tasks, pya, play_stream, run_exc,
                    run_notes, failures, pollVars, declVars >>

\* play_audio: the output stream is opened
PlayOpens ==
    /\ tasks["play"] = "running"
    /\ play_stream = "none"
    /\ play_stream' = "open"
    /\ UNCHANGED << engineVars, userVars, run_pc, running_set, exit_stack,
                    servers_todo, session, tasks, pya, audio_stream, run_exc,
                    run_notes, failures, pollVars, declVars, appVars >>

\* what a pipeline fails with: the device cannot be opened, the device
\* fails on a read or write, the session's transport closes
FailureCause(t) ==
    IF t = "listen" THEN (IF audio_stream = "none" THEN "device_open"
                          ELSE "device_io")
    ELSE IF t = "play" THEN (IF play_stream = "none" THEN "device_open"
                             ELSE "device_io")
    ELSE "session_lost"

\* a pipeline raises an exception: its task is done, with the exception
PipelineFails ==
    /\ \E t \in Pipelines :
          /\ tasks[t] = "running"
          /\ tasks' = [tasks EXCEPT ![t] = "failed"]
          /\ failures' = failures \cup {FailureCause(t)}
    /\ UNCHANGED << engineVars, userVars, run_pc, running_set, exit_stack,
                    servers_todo, session, pya, audio_stream, play_stream,
                    run_exc, run_notes, pollVars, declVars, appVars >>

\* the TaskGroup's done callback of a failed task: the other tasks and the
\* parent are cancelled, run() leaves _running.wait() with CancelledError
\* and enters the TaskGroup's __aexit__
TaskGroupAbort ==
    /\ run_pc = "wait"
    /\ \E t \in Pipelines : tasks[t] = "failed"
    /\ tasks' = AbortTasks(tasks)
    /\ run_pc' = "tg_exit"
    /\ UNCHANGED << engineVars, userVars, running_set, exit_stack,
                    servers_todo, session, pya, audio_stream, play_stream,
                    run_exc, run_notes, failures, pollVars, declVars, appVars >>

\* a handler that catches the CancelledError of an in-flight provider call
\* with the provider's own failures and carries on
OnCancel_Swallowed(t) ==
    IF t = "receive" /\ recv_pc = "call" THEN "running" ELSE "cancelled"

\* CancelledError is thrown into the task at its await: no pipeline
\* catches it (except Exception in handle_tool_call does not)
OnCancel(t) == "cancelled"

TaskCancelled ==
    /\ \E t \in Pipelines :
          /\ tasks[t] = "cancelling"
          /\ tasks' = [tasks EXCEPT ![t] = OnCancel(t)]
    /\ UNCHANGED << engineVars, userVars, run_pc, running_set, exit_stack,
                    servers_todo, session, pya, audio_stream, play_stream,
                    run_exc, run_notes, failures, pollVars, declVars, appVars >>

\* every task is done: __aexit__ raises the ExceptionGroup of the tasks'
\* exceptions, or the CancelledError of the body when there are none
TaskGroupRaises(ts) ==
    IF \E t \in Pipelines : ts[t] = "failed" THEN "ExceptionGroup"
    ELSE "CancelledError"

TaskGroupExit ==
    /\ run_pc = "tg_exit"
    /\ \A t \in Pipelines : tasks[t] \in {"cancelled", "failed"}
    /\ run_exc' = TaskGroupRaises(tasks)
    /\ run_pc' = "session_exit"
    /\ UNCHANGED << engineVars, userVars, running_set, exit_stack,
                    servers_todo, session, tasks, pya, audio_stream,
                    play_stream, run_notes, failures, pollVars, declVars, appVars >>

\* the session context has closed the session: the except clauses, then
\* the finally block up to await close()
SessionExit ==
    /\ run_pc = "session_exit"
    /\ session' = "closed"
    /\ run_notes' = run_notes \o ExceptNotes(run_exc)
    /\ run_exc' = ExceptLeaves(run_exc)
    /\ ReleaseDevice
    /\ run_pc' = "closing"
    /\ Post(Events(ExceptNotes(run_exc)))
    /\ UNCHANGED << engineVars, userVars, running_set, exit_stack,
                    servers_todo, tasks, failures, pollVars, declVars >>

\* MCPClient.close(): exit_stack.aclose() releases every connection held;
\* run() then returns, or raises what the except clauses left
RegistryClose ==
    /\ run_pc = "closing"
    /\ exit_stack' = {}
    /\ run_pc' = IF run_exc = "none" THEN "returned" ELSE "raised"
    /\ UNCHANGED << engineVars, userVars, running_set, servers_todo, session,
                    tasks, pya, audio_stream, play_stream, run_exc,
                    run_notes, failures, pollVars, declVars, appVars >>

\* the receive pipeline takes steps only while its task runs
ReceiveRuns == tasks["receive"] = "running"

\* run() has started the pipelines and is blocked on _running.wait()
RunStarted ==
    /\ run_pc = "wait"
    /\ running_set = FALSE
    /\ exit_stack = {"ralph"}
    /\ servers_todo = << >>
    /\ session = "open"
    /\ tasks = [t \in Pipelines |-> "running"]
    /\ pya = "up"
    /\ audio_stream = "open"
    /\ play_stream = "open"
    /\ run_exc = "none"
    /\ run_notes = << "INFO", "GEMINI_CONNECTED" >>
    /\ failures = {}

(***************************************************************************)
(* Adaptive status poller: AgentPanel (src/ui/widgets.py)                  *)
(*                                                                         *)
(* A poll cycle is one run of the _poll worker.  poll_pc: "idle" (no       *)
(* worker), "discover" (awaiting _discover_from_docker), "query" (awaiting *)
(* call_tool for the first project of poll_todo).  A status payload is     *)
(* [project, containers]: the project it is about, and whether its         *)
(* containers list is non-empty.                                           *)
(***************************************************************************)
\* _POLL_ACTIVE, _POLL_IDLE, _STALE_TIMEOUT, in seconds
POLL_ACTIVE == 10
POLL_IDLE == 30
STALE_TIMEOUT == 30

\* project directories, two of them with the same last path component
Projects == {"/a/app", "/b/app", "/c/web"}
\* Path(project_dir).name
Basename(p) == IF p \in {"/a/app", "/b/app"} THEN "app" ELSE "web"

Payloads(p) == { [project |-> p, containers |-> c] : c \in BOOLEAN }

\* what a status query comes to: ok is false when call_tool raised or the
\* result held no JSON text, and the payload is then of no account
QueryOutcomes(p) ==
    { [ok |-> FALSE, payload |-> [project |-> p, containers |-> FALSE]] }
    \cup { [ok |-> TRUE, payload |-> d] : d \in Payloads(p) }

\* list(self._tracked_projects): the set in some order
Orders(S) ==
    { s \in [1..Cardinality(S) -> S] :
        \A i, j \in 1..Cardinality(S) : s[i] = s[j] => i = j }

\* a staleness test that never fires
Stale_Never == FALSE

\* time.monotonic() - self._last_nonempty > self._STALE_TIMEOUT
Stale == now > last_nonempty + STALE_TIMEOUT

\* any(d.get("containers") for d in merged.values())
HasContainers(m) == \E n \in DOMAIN m : m[n].containers

\* the record of the last completed cycle: the branch it took
\* ("untracked": no project is tracked, "merged": some query succeeded,
\* "unmerged": none did) and whether it cleared a view that held entries
NoCycle == [branch |-> "none", cleared |-> FALSE]

CycleDone(branch, view) ==
    [branch |-> branch,
     cleared |-> (status_data # EmptyDict /\ view = EmptyDict)]

\* a worker is started with exclusive=True: a running cycle is cancelled at
\* its await and _poll() starts anew
StartPoll ==
    /\ poll_pc' = "discover"
    /\ poll_todo' = << >>
    /\ merged' = EmptyDict
    /\ poll_reported' = {}
    /\ poll_queried' = EmptyDict

\* the interval timer fires: _poll_wrapper
PollTick ==
    /\ StartPoll
    /\ UNCHANGED << engineVars, userVars, runVars, declVars, appVars, tracked_projects,
                    status_data, poll_interval, last_nonempty, now, cycle >>

\* if not self._tracked_projects: the staleness check and the idle
\* interval, and the cycle is over
PollUntracked ==
    LET view == IF status_data # EmptyDict /\ Stale THEN EmptyDict
                ELSE status_data
    IN  /\ status_data' = view
        /\ poll_interval' = POLL_IDLE
        /\ poll_pc' = "idle"
        /\ cycle' = CycleDone("untracked", view)
        /\ UNCHANGED << last_nonempty, poll_todo, merged, poll_reported,
                        poll_queried >>

\* a discovery that tracks the projects of the live containers only
TrackedAfterDiscover_Replace(found) == found

\* self._tracked_projects.add(project_dir) for every container that
\* carries the ralph.project_dir label
TrackedAfterDiscover(found) == tracked_projects \cup found

\* _discover_from_docker returned (having found the projects of the live
\* containers, or nothing): _poll goes on to its first suspension
Discover ==
    /\ poll_pc = "discover"
    /\ \E found \in SUBSET Projects :
          /\ tracked_projects' = TrackedAfterDiscover(found)
          /\ IF tracked_projects' = {}
             THEN PollUntracked
             ELSE /\ poll_todo' \in Orders(tracked_projects')
                  /\ poll_pc' = "query"
                  /\ UNCHANGED << status_data, poll_interval, last_nonempty,
                                  merged, poll_reported, poll_queried,
                                  cycle >>
    /\ UNCHANGED << engineVars, userVars, runVars, declVars, appVars, now >>

\* after the for loop: the view is replaced by merged, or aged
PollPublish(m) ==
    IF m # EmptyDict
    THEN /\ status_data' = m
         /\ IF HasContainers(m)
            THEN /\ last_nonempty' = now
                 /\ poll_interval' = POLL_ACTIVE
            ELSE /\ poll_interval' = POLL_IDLE
                 /\ UNCHANGED last_nonempty
         /\ cycle' = CycleDone("merged", m)
    ELSE LET view == IF Stale THEN EmptyDict ELSE status_data
         IN  /\ status_data' = view
             /\ poll_interval' = POLL_IDLE
             /\ cycle' = CycleDone("unmerged", view)
             /\ UNCHANGED last_nonempty

\* a merge that writes every result into the view as it comes
ViewWhileMerging_InPlace(m) == m

\* merged is a dict local to _poll: the view is not touched while the loop
\* goes on
ViewWhileMerging(m) == status_data

\* call_tool("ralph_status", {"project_dir": p}) is over for the first
\* project of poll_todo: it failed, or gave a payload; after the last
\* project the cycle publishes
QueryReturns ==
    /\ poll_pc = "query"
    /\ LET p == Head(poll_todo)
       IN  \E r \in QueryOutcomes(p) :
              LET m == IF ~r.ok THEN merged
                       ELSE DictSet(merged, Basename(p), r.payload)
                  reported == IF r.ok /\ r.payload.containers
                              THEN poll_reported \cup {p}
                              ELSE poll_reported
              IN  IF Tail(poll_todo) # << >>
                  THEN /\ poll_todo' = Tail(poll_todo)
                       /\ merged' = m
                       /\ poll_reported' = reported
                       /\ poll_queried' = DictSet(poll_queried, p, r.ok)
                       /\ status_data' = ViewWhileMerging(m)
                       /\ UNCHANGED << poll_pc, poll_interval,
                                       last_nonempty, cycle >>
                  ELSE /\ PollPublish(m)
                       /\ poll_pc' = "idle"
                       /\ poll_todo' = << >>
                       /\ merged' = EmptyDict
                       /\ poll_reported' = reported
                       /\ poll_queried' = DictSet(poll_queried, p, r.ok)
    /\ UNCHANGED << engineVars, userVars, runVars, declVars, appVars, tracked_projects, now >>

\* track_project(project_dir): a new project is added and a poll started
TrackProject ==
    /\ \E p \in Projects :
          /\ p \notin tracked_projects
          /\ tracked_projects' = tracked_projects \cup {p}
    /\ StartPoll
    /\ UNCHANGED << engineVars, userVars, runVars, declVars, appVars, status_data,
                    poll_interval, last_nonempty, now, cycle >>

\* refresh_now(data) with a payload that names its project: the payload is
\* merged into a copy of the view, which replaces the view
RefreshInject ==
    /\ \E p \in Projects : \E d \in Payloads(p) :
          status_data' = DictSet(status_data, Basename(p), d)
    /\ last_nonempty' = now
    /\ UNCHANGED << engineVars, userVars, runVars, declVars, appVars, tracked_projects,
                    poll_interval, now, poll_pc, poll_todo, merged,
                    poll_reported, poll_queried, cycle >>

\* time passes
Tick ==
    /\ now < MaxTime
    /\ now' = now + TimeStep
    /\ UNCHANGED << engineVars, userVars, runVars, declVars, appVars, tracked_projects,
                    status_data, poll_interval, last_nonempty, poll_pc,
                    poll_todo, merged, poll_reported, poll_queried, cycle >>

(***************************************************************************)
(* The app: RalphVoiceApp.on_audio_event_message (src/ui/app.py).  The     *)
(* engine's callback posts every notification to the app's message queue;  *)
(* the app handles the messages one at a time, in the order they were      *)
(* posted.                                                                 *)
(***************************************************************************)
\* StatusBar.state = reactive("idle"), StatusBar.muted = reactive(False)
StatusBarInit == [state |-> "idle", muted |-> FALSE]

\* the record of the last message handled: its event, and whether the
\* handler started a poll of the agent panel
NoMessage == [event |-> Note("none"), polled |-> FALSE]

\* if name in ("ralph_status", "ralph_launch", "ralph_changes",
\*            "ralph_stop", "ralph_logs")
TrackingTools == {"ralph_status", "ralph_launch", "ralph_changes",
                  "ralph_stop", "ralph_logs"}
\* if name in ("ralph_status", "ralph_changes", "ralph_launch")
RefreshingTools == {"ralph_status", "ralph_changes", "ralph_launch"}

\* the assignments to status_bar.state and status_bar.muted of the match
\* statement; the other cases write to the transcript only
StatusAfter(bar, e) ==
    CASE e.type \in {"MIC_READY", "GEMINI_CONNECTED", "PLAYBACK_END"}
           -> [bar EXCEPT !.state = "listening"]
      [] e.type = "TOOL_CALL_START" -> [bar EXCEPT !.state = "thinking"]
      [] e.type = "PLAYBACK_START" -> [bar EXCEPT !.state = "speaking"]
      [] e.type = "MUTE_CHANGED" -> [bar EXCEPT !.muted = e.muted]
      [] OTHER -> bar

\* case TOOL_CALL_START: the tool is one whose project is tracked, and
\* "if project_dir"
Tracks(e) ==
    /\ e.type = "TOOL_CALL_START"
    /\ e.name \in TrackingTools
    /\ Truthy(e.project_dir)

\* case TOOL_CALL_RESULT: refresh_now() is called, without data
Refreshes(e) == e.type = "TOOL_CALL_RESULT" /\ e.name \in RefreshingTools

\* track_project: if project_dir and project_dir not in
\* self._tracked_projects
TrackAdds(p) == Truthy(p) /\ p \notin tracked_projects

\* AgentPanel.track_project(project_dir): a project that is new is added
\* and a poll is started
track_project(p) ==
    IF TrackAdds(p)
    THEN /\ tracked_projects' = tracked_projects \cup {p}
         /\ StartPoll
    ELSE UNCHANGED << tracked_projects, poll_pc, poll_todo, merged,
                      poll_reported, poll_queried >>

\* the app takes the next message from its queue and handles it
OnAudioEventMessage ==
    /\ messages # << >>
    /\ LET e == Head(messages)
       IN  /\ messages' = Tail(messages)
           /\ status_bar' = StatusAfter(status_bar, e)
           /\ IF Tracks(e) THEN track_project(e.project_dir)
              ELSE IF Refreshes(e)
              THEN StartPoll /\ UNCHANGED tracked_projects
              ELSE UNCHANGED << tracked_projects, poll_pc, poll_todo, merged,
                                poll_reported, poll_queried >>
           /\ handled' =
                 [event |-> e,
                  polled |-> \/ Tracks(e) /\ TrackAdds(e.project_dir)
                             \/ Refreshes(e)]
    /\ UNCHANGED << engineVars, userVars, runVars, declVars, event_callback,
                    status_data, poll_interval, last_nonempty, now, cycle >>

\* an engine that was made without a callback (src/main.py): nothing is
\* posted and the app's widgets are as they were made
NoObserver ==
    /\ event_callback = FALSE
    /\ messages = << >>
    /\ status_bar = StatusBarInit
    /\ handled = NoMessage

\* the registry and the declarations of a run whose one provider, ralph,
\* has listed the tools of the registry
ToolsDeclared ==
    /\ mcp_servers = << "ralph" >>
    /\ tools = SelectSeq(ToolList("ralph"),
                         LAMBDA d : d.name \in DOMAIN tool_sessions)
    /\ functional_tools = Declarations(tools)

\* the panel after __init__
PollerInit ==
    /\ tracked_projects = {}
    /\ status_data = EmptyDict
    /\ poll_interval = POLL_IDLE
    /\ last_nonempty = 0
    /\ now = 0
    /\ poll_pc = "idle"
    /\ poll_todo = << >>
    /\ merged = EmptyDict
    /\ poll_reported = {}
    /\ poll_queried = EmptyDict
    /\ cycle = NoCycle

(***************************************************************************)
(* The engine: the four pipelines, toggle_mute and the dispatch path, once *)
(* run() has connected the registry and opened the session.                *)
(***************************************************************************)
Init ==
    /\ muted \in BOOLEAN
    /\ playing = FALSE
    /\ out_queue = << >>
    /\ audio_in_queue = << >>
    /\ listen_pc = "read"
    /\ send_pc = "get"
    /\ play_pc = "get"
    /\ recv_pc = "recv"
    /\ tool_sessions = RalphRegistry
    /\ last_commits = EmptyDict
    /\ fcs = << >>
    /\ cur = NoCall
    /\ turn_msgs = << >>
    /\ turn_pb = << >>
    /\ turn_closed = FALSE
    /\ pb_ends = 0
    /\ toggle = NoToggle
    /\ text_call = NoText
    /\ RunStarted
    /\ PollerInit
    /\ ToolsDeclared
    /\ NoObserver

Next ==
    \/ ListenRead
    \/ ListenPutResume
    \/ SendGet
    \/ SendDone
    \/ ToggleMute
    \/ PlayGet
    \/ PlayWritten
    \/ PlayGraceEnd
    \/ RecvAudio
    \/ RecvText
    \/ RecvCode
    \/ RecvToolCall(EngineRequests)
    \/ ProviderReturns(EngineResults)
    \/ ProviderRaises
    \/ ToolResponseDone
    \/ TurnComplete
    \/ DrainPoll

Spec == Init /\ [][Next]_vars

(***************************************************************************)
(* The dispatch path alone: the receive pipeline of a session that sends   *)
(* tool-call requests only, over every registry, call and provider result. *)
(***************************************************************************)
InitDispatch ==
    /\ muted = FALSE
    /\ playing = FALSE
    /\ out_queue = << >>
    /\ audio_in_queue = << >>
    /\ listen_pc = "read"
    /\ send_pc = "get"
    /\ play_pc = "get"
    /\ recv_pc = "recv"
    /\ tool_sessions \in {RalphRegistry, SmallRegistry}
    /\ last_commits = EmptyDict
    /\ fcs = << >>
    /\ cur = NoCall
    /\ turn_msgs = << >>
    /\ turn_pb = << >>
    /\ turn_closed = FALSE
    /\ pb_ends = 0
    /\ toggle = NoToggle
    /\ text_call = NoText
    /\ RunStarted
    /\ PollerInit
    /\ ToolsDeclared
    /\ NoObserver

NextDispatch ==
    \/ RecvToolCall(DispatchRequests)
    \/ ProviderReturns(DispatchResults)
    \/ ProviderRaises
    \/ ToolResponseDone
    \/ TurnComplete

SpecDispatch == InitDispatch /\ [][NextDispatch]_vars

(***************************************************************************)
(* One run of the engine, from the call of run() to its end, with the      *)
(* receive pipeline's dispatch path, shutdown() and send_text_message.     *)
(* The event loop runs every callback and task that is ready, and the      *)
(* session and the providers answer a close: the steps of the teardown are *)
(* weakly fair.                                                            *)
(***************************************************************************)
InitRun ==
    /\ muted = FALSE
    /\ playing = FALSE
    /\ out_queue = << >>
    /\ audio_in_queue = << >>
    /\ listen_pc = "read"
    /\ send_pc = "get"
    /\ play_pc = "get"
    /\ recv_pc = "recv"
    /\ tool_sessions = EmptyDict
    /\ last_commits = EmptyDict
    /\ fcs = << >>
    /\ cur = NoCall
    /\ turn_msgs = << >>
    /\ turn_pb = << >>
    /\ turn_closed = FALSE
    /\ pb_ends = 0
    /\ toggle = NoToggle
    /\ text_call = NoText
    /\ run_pc = "init"
    /\ running_set = FALSE
    /\ exit_stack = {}
    /\ servers_todo = << >>
    /\ session = "none"
    /\ tasks = [t \in Pipelines |-> "none"]
    /\ pya = "none"
    /\ audio_stream = "none"
    /\ play_stream = "none"
    /\ run_exc = "none"
    /\ run_notes = << >>
    /\ failures = {}
    /\ PollerInit
    /\ mcp_servers = Servers
    /\ tools = << >>
    /\ functional_tools = << >>
    /\ NoObserver

NextRun ==
    \/ RunStart
    \/ ConnectServer
    \/ ConnectFails
    \/ SessionConnects
    \/ SessionConnectFails
    \/ Shutdown
    \/ RunWakes
    \/ ListenOpens
    \/ PlayOpens
    \/ PipelineFails
    \/ TaskGroupAbort
    \/ TaskCancelled
    \/ TaskGroupExit
    \/ SessionExit
    \/ RegistryClose
    \/ SendTextMessage
    \/ ReceiveRuns /\ RecvToolCall(EngineRequests)
    \/ ReceiveRuns /\ ProviderReturns(EngineResults)
    \/ ReceiveRuns /\ ProviderRaises
    \/ ReceiveRuns /\ ToolResponseDone
    \/ ReceiveRuns /\ TurnComplete

SpecRun ==
    /\ InitRun
    /\ [][NextRun]_vars
    /\ WF_vars(RunWakes)
    /\ WF_vars(TaskGroupAbort)
    /\ WF_vars(TaskCancelled)
    /\ WF_vars(TaskGroupExit)
    /\ WF_vars(SessionExit)
    /\ WF_vars(RegistryClose)

(***************************************************************************)
(* The status poller alone: timer ticks, out-of-band polls, injections     *)
(* and the passing of time.                                                *)
(***************************************************************************)
InitPoll ==
    /\ muted = FALSE
    /\ playing = FALSE
    /\ out_queue = << >>
    /\ audio_in_queue = << >>
    /\ listen_pc = "read"
    /\ send_pc = "get"
    /\ play_pc = "get"
    /\ recv_pc = "recv"
    /\ tool_sessions = RalphRegistry
    /\ last_commits = EmptyDict
    /\ fcs = << >>
    /\ cur = NoCall
    /\ turn_msgs = << >>
    /\ turn_pb = << >>
    /\ turn_closed = FALSE
    /\ pb_ends = 0
    /\ toggle = NoToggle
    /\ text_call = NoText
    /\ RunStarted
    /\ PollerInit
    /\ ToolsDeclared
    /\ NoObserver

NextPoll ==
    \/ PollTick
    \/ Discover
    \/ QueryReturns
    \/ TrackProject
    \/ RefreshInject
    \/ Tick

SpecPoll == InitPoll /\ [][NextPoll]_vars

(***************************************************************************)
(* The registry from connect() to the dispatch of a call, over every       *)
(* configuration of the providers: any of them, in any order.              *)
(***************************************************************************)
Configs == UNION { Orders(S) : S \in (SUBSET Elems(Servers)) \ {{}} }

\* one call of each name a provider lists, and of one that none lists
ConnectRequests ==
    { << [id |-> "call-1", name |-> n, args |-> MkArgs("/p", JNull)] >> :
        n \in {"ralph_status", "ralph_logs", "aux_lookup", "no_such_tool"} }

InitConnect ==
    /\ muted = FALSE
    /\ playing = FALSE
    /\ out_queue = << >>
    /\ audio_in_queue = << >>
    /\ listen_pc = "read"
    /\ send_pc = "get"
    /\ play_pc = "get"
    /\ recv_pc = "recv"
    /\ tool_sessions = EmptyDict
    /\ last_commits = EmptyDict
    /\ fcs = << >>
    /\ cur = NoCall
    /\ turn_msgs = << >>
    /\ turn_pb = << >>
    /\ turn_closed = FALSE
    /\ pb_ends = 0
    /\ toggle = NoToggle
    /\ text_call = NoText
    /\ run_pc = "init"
    /\ running_set = FALSE
    /\ exit_stack = {}
    /\ servers_todo = << >>
    /\ session = "none"
    /\ tasks = [t \in Pipelines |-> "none"]
    /\ pya = "none"
    /\ audio_stream = "none"
    /\ play_stream = "none"
    /\ run_exc = "none"
    /\ run_notes = << >>
    /\ failures = {}
    /\ PollerInit
    /\ mcp_servers \in Configs
    /\ tools = << >>
    /\ functional_tools = << >>
    /\ NoObserver

NextConnect ==
    \/ RunStart
    \/ ConnectServer
    \/ ConnectFails
    \/ SessionConnects
    \/ ReceiveRuns /\ RecvToolCall(ConnectRequests)
    \/ ReceiveRuns /\ ProviderReturns(EngineResults)
    \/ ReceiveRuns /\ ProviderRaises
    \/ ReceiveRuns /\ ToolResponseDone
    \/ ReceiveRuns /\ TurnComplete

SpecConnect == InitConnect /\ [][NextConnect]_vars

(***************************************************************************)
(* The translation alone: run() holds the descriptor of one tool, over     *)
(* every parameter schema, and declares it.                                *)
(***************************************************************************)
InitSchema ==
    /\ muted = FALSE
    /\ playing = FALSE
    /\ out_queue = << >>
    /\ audio_in_queue = << >>
    /\ listen_pc = "read"
    /\ send_pc = "get"
    /\ play_pc = "get"
    /\ recv_pc = "recv"
    /\ tool_sessions = [n \in {"tool"} |-> "ralph"]
    /\ last_commits = EmptyDict
    /\ fcs = << >>
    /\ cur = NoCall
    /\ turn_msgs = << >>
    /\ turn_pb = << >>
    /\ turn_closed = FALSE
    /\ pb_ends = 0
    /\ toggle = NoToggle
    /\ text_call = NoText
    /\ run_pc = "connected"
    /\ running_set = FALSE
    /\ exit_stack = {"ralph"}
    /\ servers_todo = << >>
    /\ session = "none"
    /\ tasks = [t \in Pipelines |-> "none"]
    /\ pya = "up"
    /\ audio_stream = "none"
    /\ play_stream = "none"
    /\ run_exc = "none"
    /\ run_notes = << >>
    /\ failures = {}
    /\ PollerInit
    /\ mcp_servers = << "ralph" >>
    /\ tools \in { << t >> : t \in SchemaTools }
    /\ functional_tools = << >>
    /\ NoObserver

NextSchema == TranslateTools

SpecSchema == InitSchema /\ [][NextSchema]_vars

(***************************************************************************)
(* The engine under the user's controls: the four pipelines and the        *)
(* dispatch path, with toggle_mute and send_text_message called at any     *)
(* moment.                                                                 *)
(***************************************************************************)
InitUser ==
    /\ muted = FALSE
    /\ playing = FALSE
    /\ out_queue = << >>
    /\ audio_in_queue = << >>
    /\ listen_pc = "read"
    /\ send_pc = "get"
    /\ play_pc = "get"
    /\ recv_pc = "recv"
    /\ tool_sessions = RalphRegistry
    /\ last_commits = EmptyDict
    /\ fcs = << >>
    /\ cur = NoCall
    /\ turn_msgs = << >>
    /\ turn_pb = << >>
    /\ turn_closed = FALSE
    /\ pb_ends = 0
    /\ toggle = NoToggle
    /\ text_call = NoText
    /\ RunStarted
    /\ PollerInit
    /\ ToolsDeclared
    /\ NoObserver

NextUser ==
    \/ ToggleMute
    \/ SendTextMessage
    \/ ListenRead
    \/ ListenPutResume
    \/ SendGet
    \/ SendDone
    \/ PlayGet
    \/ PlayWritten
    \/ PlayGraceEnd
    \/ RecvAudio
    \/ RecvText
    \/ RecvToolCall(EngineRequests)
    \/ ProviderReturns(EngineResults)
    \/ ProviderRaises
    \/ ToolResponseDone
    \/ TurnComplete
    \/ DrainPoll

SpecUser == InitUser /\ [][NextUser]_vars

(***************************************************************************)
(* The engine with the app attached (RalphVoiceApp): the receive and the   *)
(* playback pipeline, the dispatch path and the app's message handler,     *)
(* which starts the polls of the agent panel (the steps of a poll are      *)
(* SpecPoll's).  The event loop runs the message pump and the tasks that   *)
(* are ready, and a provider call ends: these steps are weakly fair.  What *)
(* the session sends next, and whether it sends anything, is up to the     *)
(* session.                                                                *)
(***************************************************************************)
\* one call of a tool that tracks its project and refreshes the panel, of
\* one that only tracks, and of one that does neither; with a project,
\* with another, and without
ObserverRequests ==
    { << [id |-> "call-1", name |-> n, args |-> MkArgs(pd, JNull)] >> :
        n \in {"ralph_status", "ralph_stop", "ralph_prd_read"},
        pd \in {"/a/app", "/c/web", JNull} }

\* the app has seen MIC_READY and GEMINI_CONNECTED
InitObserver ==
    /\ muted = FALSE
    /\ playing = FALSE
    /\ out_queue = << >>
    /\ audio_in_queue = << >>
    /\ listen_pc = "read"
    /\ send_pc = "get"
    /\ play_pc = "get"
    /\ recv_pc = "recv"
    /\ tool_sessions = RalphRegistry
    /\ last_commits = EmptyDict
    /\ fcs = << >>
    /\ cur = NoCall
    /\ turn_msgs = << >>
    /\ turn_pb = << >>
    /\ turn_closed = FALSE
    /\ pb_ends = 0
    /\ toggle = NoToggle
    /\ text_call = NoText
    /\ RunStarted
    /\ PollerInit
    /\ ToolsDeclared
    /\ event_callback = TRUE
    /\ messages = << >>
    /\ status_bar = [StatusBarInit EXCEPT !.state = "listening"]
    /\ handled = NoMessage

\* the message pump keeps up with the engine
PumpKeepsUp == Len(messages) < MaxPosted

NextObserver ==
    \/ PumpKeepsUp /\ RecvAudio
    \/ PumpKeepsUp /\ RecvToolCall(ObserverRequests)
    \/ PumpKeepsUp /\ ProviderReturns(EngineResults)
    \/ PumpKeepsUp /\ ProviderRaises
    \/ PumpKeepsUp /\ ToolResponseDone
    \/ PumpKeepsUp /\ TurnComplete
    \/ PumpKeepsUp /\ DrainPoll
    \/ PlayGet
    \/ PlayWritten
    \/ PumpKeepsUp /\ PlayGraceEnd
    \/ OnAudioEventMessage

SpecObserver ==
    /\ InitObserver
    /\ [][NextObserver]_vars
    /\ WF_vars(OnAudioEventMessage)
    /\ WF_vars(PumpKeepsUp /\ ProviderRaises)
    /\ WF_vars(PumpKeepsUp /\ ToolResponseDone)
    /\ WF_vars(PumpKeepsUp /\ DrainPoll)
    /\ WF_vars(PlayGet)
    /\ WF_vars(PlayWritten)
    /\ WF_vars(PumpKeepsUp /\ PlayGraceEnd)

(***************************************************************************)
(* Properties of the engine (under Spec).                                  *)
(***************************************************************************)

\* C1: a mic frame is never inserted into the outbound queue at a moment
\* when muted or speaking is true, the insertion that was suspended on a
\* full queue included.
C1_NoEnqueueWhileMutedOrSpeaking ==
    [][Len(out_queue') > Len(out_queue) => (~muted /\ ~playing)]_vars

\* C3: between two consecutive PLAYBACK_START notifications at most one
\* PLAYBACK_END is emitted: the later of the two clearings is a no-op.
C3_AtMostOneEndPerStart == pb_ends <= 1

\* C4: whenever a PLAYBACK_END has been emitted and no audio frame has been
\* pushed since, the inbound audio queue is empty.
C4_QueueEmptyAfterEnd == pb_ends > 0 => audio_in_queue = << >>

\* both pipelines have emitted a PLAYBACK_END for the same playback
C4_Witness == pb_ends = 2 /\ audio_in_queue = << >> /\ ~playing

\* C5: when the receive pipeline clears speaking at the end of a turn, no
\* inbound frame is queued and the playback pipeline is not writing a frame
\* to the output device.
C5_ClearedOnlyAfterPlayback ==
    [][(playing /\ ~playing' /\ recv_pc \in {"recv", "drain"}
         /\ play_pc' = play_pc)
       => (audio_in_queue = << >> /\ play_pc # "write")]_vars

\* C10: a turn made of one tool-call request and no audio shows the
\* observer TOOL_CALL_START followed by TOOL_CALL_RESULT or TOOL_CALL_ERROR,
\* and no PLAYBACK_START or PLAYBACK_END.
C10_ToolOnlyTurn ==
    (turn_closed /\ turn_msgs = << "tool_call" >>)
    => /\ Filter(cur.notes, ToolNotes)
            \in { << "TOOL_CALL_START", "TOOL_CALL_RESULT" >>,
                  << "TOOL_CALL_START", "TOOL_CALL_ERROR" >> }
       /\ turn_pb = << >>

(***************************************************************************)
(* Properties of the dispatch path (under SpecDispatch).                   *)
(***************************************************************************)
\* the handler is done with the call it took from the request: its response
\* is with the session, or an exception has left handle_tool_call
Handled == cur.id # "none" /\ recv_pc # "call"

\* C2: every function call that handle_tool_call takes from a request gets
\* exactly one response, carrying the call's id and name; never zero and
\* never two.
C2_ExactlyOneResponse ==
    /\ Len(cur.responses) <= 1
    /\ Handled => /\ Len(cur.responses) = 1
                  /\ cur.responses[1].id = cur.id
                  /\ cur.responses[1].name = cur.name

\* C6: when the provider call succeeded, whatever the result body, no
\* TOOL_CALL_ERROR is emitted for the call and the response carries the
\* result body.
C6_CacheNeverFailsTheCall ==
    (cur.provider = "returned")
    => /\ Filter(cur.notes, ToolNotes)
            = << "TOOL_CALL_START", "TOOL_CALL_RESULT" >>
       /\ cur.responses = << [id |-> cur.id, name |-> cur.name,
                              body |-> "result"] >>

\* C7: a call of a tool name that no provider registered fails with the
\* unknown-tool error and reaches no provider.
C7_UnknownToolNeverReachesProvider ==
    (Handled /\ recv_pc # "failed" /\ cur.name \notin DOMAIN tool_sessions)
    => /\ cur.provider = "none"
       /\ cur.provider_args = EmptyDict
       /\ cur.error = "ValueError: Unknown tool"

\* an unknown name, and a ralph tool the connected provider did not list
C7_Witness ==
    /\ recv_pc = "respond"
    /\ cur.name = "ralph_changes"
    /\ cur.name \notin DOMAIN tool_sessions
    /\ cur.error = "ValueError: Unknown tool"

\* C8: the provider receives the call's arguments plus
\* since_commit = cache[project_dir] exactly when the call is ralph_changes,
\* omits since_commit and the cache has an entry for its project_dir; in
\* every other case it receives the call's arguments unchanged.
C8_ProviderArgs ==
    (recv_pc = "call")
    => cur.provider_args =
          IF /\ cur.name = "ralph_changes"
             /\ "since_commit" \notin DOMAIN cur.args
             /\ "project_dir" \in DOMAIN cur.args
             /\ cur.args["project_dir"] \in DOMAIN last_commits
          THEN [k \in DOMAIN cur.args \cup {"since_commit"} |->
                  IF k = "since_commit"
                  THEN last_commits[cur.args["project_dir"]]
                  ELSE cur.args[k]]
          ELSE cur.args

\* the provider is called with an injected since_commit
C8_Witness ==
    /\ recv_pc = "call"
    /\ cur.name = "ralph_changes"
    /\ cur.args = MkArgs("/p", JNull)
    /\ cur.provider_args = MkArgs("/p", "abc123")

\* C9: after a successful ralph_status or ralph_changes call without
\* project_dir whose payload is {latest_commit: c, project: p}, the cache
\* maps p to c when c is not "unknown" and is unchanged when it is, for
\* each shape of result (string, list of text blocks, object with content).
C9_CacheFromPayload ==
    ( /\ recv_pc = "respond"
      /\ cur.provider = "returned"
      /\ cur.name \in {"ralph_status", "ralph_changes"}
      /\ "project_dir" \notin DOMAIN cur.args
      /\ cur.result.kind = "object"
      /\ cur.result.latest_commit \in {"abc123", Unknown}
      /\ cur.result.project = "/p" )
    => IF cur.result.latest_commit # Unknown
       THEN DictGet(last_commits, "/p") = cur.result.latest_commit
       ELSE last_commits = cur.cache_before

(***************************************************************************)
(* Properties of the explicit user actions and of the outbound queue       *)
(* (under Spec).                                                           *)
(***************************************************************************)

\* C16: toggle_mute negates muted, returns the new value and emits exactly
\* one MUTE_CHANGED notification whose data carries the new value; two
\* consecutive toggles restore the value muted had before them.
C16_ToggleMute ==
    (toggle.seen > 0)
    => /\ muted = ~toggle.before
       /\ toggle.ret = muted
       /\ toggle.notes = << [type |-> "MUTE_CHANGED", muted |-> muted] >>
       /\ (toggle.seen = 2 => muted = toggle.prev)

\* muted was toggled twice and is what it was
C16_Witness == toggle.seen = 2 /\ muted /\ toggle.prev /\ ~toggle.before

\* C17: the outbound queue never holds more than 5 frames; the capture
\* pipeline suspends on its insertion only when the queue is full, keeping
\* the queue as it is, and when it resumes there is room again and the
\* frame it held is appended.
C17_BoundedWithBackpressure ==
    /\ [](Len(out_queue) <= OutQueueMax)
    /\ [][(listen_pc = "read" /\ listen_pc' = "put_wait")
            => (Len(out_queue) = OutQueueMax /\ out_queue' = out_queue)]_vars
    /\ [][(listen_pc = "put_wait" /\ listen_pc' = "read")
            => (/\ Len(out_queue) < OutQueueMax
                /\ out_queue' = Append(out_queue, "mic"))]_vars

\* the capture pipeline is suspended on a full queue while the send
\* pipeline is forwarding a frame it has removed
C17_Witness ==
    listen_pc = "put_wait" /\ Len(out_queue) = OutQueueMax /\ send_pc = "send"

\* the mic frames that are captured and not yet handed to the session:
\* those in the queue and the one a suspended insertion holds
Pending == Len(out_queue) + (IF listen_pc = "put_wait" THEN 1 ELSE 0)

\* the send pipeline takes a frame and calls the session with it
Forwards == send_pc = "get" /\ send_pc' = "send"

\* C37: while muted stays true the send pipeline forwards at most 6 mic
\* frames, each captured before the mute: at any moment at most 6 frames
\* are pending (5 in the queue and 1 in a suspended insertion), and while
\* muted no frame is captured (the pending frames never grow in number, no
\* insertion is begun, the queue grows only by the insertion that was
\* already suspended) and every forwarded frame is one pending frame less.
C37_MutedForwardsOnlyPending ==
    /\ [](Pending <= OutQueueMax + 1)
    /\ [][(muted /\ muted')
            => /\ Pending' <= Pending
               /\ Forwards => Pending' = Pending - 1
               /\ ~(listen_pc = "read" /\ listen_pc' = "put_wait")
               /\ Len(out_queue') > Len(out_queue)
                  => (listen_pc = "put_wait" /\ listen_pc' = "read")]_vars

\* toggle_mute has just muted while the queue is full and an insertion is
\* suspended: 6 frames captured before the mute are still to be forwarded
C37_Witness ==
    /\ muted
    /\ toggle.seen = 1
    /\ toggle.ret
    /\ Len(out_queue) = OutQueueMax
    /\ listen_pc = "put_wait"
    /\ send_pc = "get"

(***************************************************************************)
(* Properties of the engine's lifecycle (under SpecRun).                   *)
(***************************************************************************)
RunEnded == run_pc \in {"returned", "raised"}
Emitted(notes, kind) == \E i \in 1..Len(notes) : notes[i] = kind

\* no pipeline runs, the session is closed, no device stream is open and
\* PortAudio is terminated, no provider connection is held
TornDown ==
    /\ \A t \in Pipelines : tasks[t] \in {"cancelled", "failed"}
    /\ session = "closed"
    /\ audio_stream # "open"
    /\ play_stream # "open"
    /\ pya = "terminated"
    /\ exit_stack = {}

\* C11: once shutdown() was called while the session is open, run()
\* eventually returns; and a run that was shut down after it opened its
\* session ends by returning, with the four pipelines cancelled (or
\* failed), the session closed, the device streams released and the
\* registry closed, a tool call in flight or not.
C11_ShutdownTearsDown ==
    /\ []((running_set /\ RunEnded /\ session # "none")
           => (run_pc = "returned" /\ TornDown))
    /\ ((running_set /\ session = "open") ~> (run_pc = "returned"))

\* run() returned after a shutdown that met a provider call in flight
C11_Witness ==
    /\ run_pc = "returned"
    /\ running_set
    /\ recv_pc = "call"
    /\ \A t \in Pipelines : tasks[t] = "cancelled"
    /\ TornDown

\* C12: close() of the registry runs on every exit path of run(): when
\* run() has ended, no provider connection is held, also when connect()
\* raised after a provider was connected.
C12_RegistryClosedOnEveryExit == RunEnded => exit_stack = {}

\* C13: once a pipeline has failed, run() eventually returns; by then an
\* ERROR notification was emitted, no pipeline is running, the device is
\* released and the registry closed; and no pipeline is running from the
\* moment the TaskGroup is left.
C13_PipelineFailureTearsDown ==
    /\ []((RunEnded /\ \E t \in Pipelines : tasks[t] = "failed")
           => (/\ run_pc = "returned"
               /\ Emitted(run_notes, "ERROR")
               /\ TornDown))
    /\ [](run_pc \in {"session_exit", "closing", "returned", "raised"}
           => \A t \in Pipelines : tasks[t] # "running")
    /\ ((\E t \in Pipelines : tasks[t] = "failed") ~> (run_pc = "returned"))

\* the capture pipeline failed, the three others were cancelled
C13_Witness ==
    /\ run_pc = "returned"
    /\ ~running_set
    /\ tasks["listen"] = "failed"
    /\ \A t \in Pipelines \ {"listen"} : tasks[t] = "cancelled"
    /\ Emitted(run_notes, "ERROR")

\* C14: when a run that met a connection-class failure (a device that
\* cannot be opened, a session that cannot be connected) has ended, the
\* engine has emitted an ERROR notification.
C14_ConnectionFailuresReported ==
    (RunEnded /\ failures \cap {"device_open", "session_connect"} # {})
    => Emitted(run_notes, "ERROR")

\* C15: send_text_message does not raise, and when the content did not
\* reach the session it has emitted an ERROR notification.
C15_SendTextReportsFailure ==
    text_call.called
    => /\ ~text_call.raised
       /\ (~text_call.delivered => Emitted(text_call.notes, "ERROR"))

(***************************************************************************)
(* Properties of the status poller (under SpecPoll).                       *)
(***************************************************************************)
\* a step that ends a poll cycle
CycleEnds == poll_pc # "idle" /\ poll_pc' = "idle"

\* C18: a poll cycle that finds no tracked project more than the
\* staleness timeout after the last non-empty result leaves the merged
\* status view empty and the interval at the idle value.
C18_StaleViewCleared ==
    [][(CycleEnds /\ tracked_projects' = {}
          /\ now > last_nonempty + STALE_TIMEOUT)
       => (status_data' = EmptyDict /\ poll_interval' = POLL_IDLE)]_vars

\* such a cycle has cleared a view that held entries
C18_Witness ==
    /\ cycle = [branch |-> "untracked", cleared |-> TRUE]
    /\ tracked_projects = {}
    /\ status_data = EmptyDict
    /\ poll_interval = POLL_IDLE

\* C19: a completed poll cycle leaves the interval at the active value if
\* a project polled in it reported non-empty containers and at the idle
\* value otherwise, and the interval never has another value.
C19_IntervalFollowsReports ==
    /\ [](poll_interval \in {POLL_ACTIVE, POLL_IDLE})
    /\ [][CycleEnds
            => poll_interval' = IF poll_reported' # {} THEN POLL_ACTIVE
                                ELSE POLL_IDLE]_vars

\* C20: a poll cycle that starts with entries in the merged status view,
\* in which no project reports containers, and that completes more than
\* the staleness timeout after the last non-empty result, leaves the view
\* empty: a view is not retained beyond the grace period.
C20_ViewClearedAfterGrace ==
    [][(CycleEnds /\ status_data # EmptyDict /\ poll_reported' = {}
          /\ now > last_nonempty + STALE_TIMEOUT)
       => status_data' = EmptyDict]_vars

(***************************************************************************)
(* Properties of the descriptor translation (under SpecSchema).            *)
(***************************************************************************)
\* the translated parameter schema of the i-th tool, where there is one
HasParameters(i) == "parameters" \in PairsKeys(functional_tools[i].e)
Parameters(i) == PairsGet(functional_tools[i].e, "parameters")

\* a type that is a two-element list of "null" and one other element
NullableUnion(tv) ==
    /\ IsList(tv)
    /\ Len(tv.e) = 2
    /\ Str("null") \in Elems(ListItems(tv))
    /\ \E x \in Elems(ListItems(tv)) : x # Str("null")
TheNonNull(tv) == CHOOSE x \in Elems(ListItems(tv)) : x # Str("null")

\* node by node, from a node of the input and the node it is translated to:
\* a nullable union has become its non-null element and nullable = true
RECURSIVE UnionsNormalised(_, _)
UnionsNormalised(in, out) ==
    /\ (IsDict(in) /\ IsDict(out)) =>
          /\ ("type" \in PairsKeys(in.e)
                 /\ NullableUnion(PairsGet(in.e, "type"))) =>
                /\ "type" \in PairsKeys(out.e)
                /\ PairsGet(out.e, "type")
                      = TheNonNull(PairsGet(in.e, "type"))
                /\ "nullable" \in PairsKeys(out.e)
                /\ PairsGet(out.e, "nullable") = Bool(TRUE)
          /\ ({"properties"} \subseteq PairsKeys(in.e) \cap PairsKeys(out.e)
                 /\ IsDict(PairsGet(in.e, "properties"))
                 /\ IsDict(PairsGet(out.e, "properties"))) =>
                LET pin == PairsGet(in.e, "properties").e
                    pout == PairsGet(out.e, "properties").e
                IN  \A j \in DOMAIN pin :
                       pin[j][1] \in PairsKeys(pout) =>
                          UnionsNormalised(pin[j][2],
                                           PairsGet(pout, pin[j][1]))
          /\ ({"items"} \subseteq PairsKeys(in.e) \cap PairsKeys(out.e)) =>
                UnionsNormalised(PairsGet(in.e, "items"),
                                 PairsGet(out.e, "items"))
    /\ (IsList(in) /\ IsList(out)) =>
          \A j \in DOMAIN in.e :
             j \in DOMAIN out.e => UnionsNormalised(in.e[j][2], out.e[j][2])

\* C21: for every schema node of a tool's parameter schema (the root and
\* every nested property or items node) whose type is a two-element list
\* containing "null", the translated node has the non-null element as its
\* type and nullable = true.
C21_NullableUnionsNormalised ==
    \A i \in DOMAIN functional_tools :
       HasParameters(i) =>
          UnionsNormalised(tools[i].inputSchema, Parameters(i))

\* a node of a translated schema and every node under it, through
\* properties and items, has supported keys only
RECURSIVE OnlySupported(_)
OnlySupported(node) ==
    /\ IsDict(node) =>
          /\ PairsKeys(node.e) \subseteq SUPPORTED_FIELDS
          /\ \A i \in DOMAIN node.e :
                /\ (node.e[i][1] = "properties" /\ IsDict(node.e[i][2])) =>
                      \A j \in DOMAIN node.e[i][2].e :
                         OnlySupported(node.e[i][2].e[j][2])
                /\ node.e[i][1] = "items" => OnlySupported(node.e[i][2])
    /\ IsList(node) =>
          \A i \in DOMAIN node.e : OnlySupported(node.e[i][2])

\* C22: for every input schema the translation does not fail, and every
\* node of the translated schema, at every depth under properties and
\* items, has only keys of the supported set.
C22_OnlySupportedFields ==
    /\ "translation" \notin failures
    /\ \A i \in DOMAIN functional_tools :
          HasParameters(i) => OnlySupported(Parameters(i))

(***************************************************************************)
(* Properties of the registry (under SpecConnect).                         *)
(***************************************************************************)
\* connect() has returned
ConnectDone ==
    run_pc \notin {"init", "connect"} /\ "provider_connect" \notin failures
\* the names the configured providers list, and for a name the last of the
\* providers, in the order of the configuration, that lists it
ListedNames == UNION { ServerTools(mcp_servers[i]) : i \in DOMAIN mcp_servers }
Listers(n) == { i \in DOMAIN mcp_servers : n \in ServerTools(mcp_servers[i]) }
LastLister(n) ==
    mcp_servers[CHOOSE i \in Listers(n) : \A j \in Listers(n) : j <= i]

\* C23: after connect() over any sequence of providers, every tool name
\* that a provider lists resolves in the registry to the last provider, in
\* connection order, that lists it, and the dispatch of a call of that name
\* is awaited on that provider and no other.
C23_LastRegisteredWins ==
    ConnectDone =>
       /\ \A n \in ListedNames :
             n \in DOMAIN tool_sessions /\ tool_sessions[n] = LastLister(n)
       /\ DOMAIN tool_sessions = ListedNames
       /\ cur.name \in ListedNames => cur.session = LastLister(cur.name)
       /\ cur.name \notin ListedNames => cur.session = "none"

\* a name that both providers list, ralph first, was called and the
\* second provider answered
C23_Witness ==
    /\ mcp_servers = << "ralph", "aux" >>
    /\ run_pc = "wait"
    /\ cur.name = "ralph_logs"
    /\ cur.session = "aux"
    /\ cur.provider = "returned"
    /\ cur.response_data = "result"

\* C24: tool names are unique: after connect() over any set of providers
\* the aggregated descriptor list, and the list of declarations translated
\* from it for the session, hold no two entries of the same name.
C24_ToolNamesUnique ==
    ConnectDone =>
       /\ \A i, j \in DOMAIN tools :
             i # j => tools[i].name # tools[j].name
       /\ \A i, j \in DOMAIN functional_tools :
             i # j => PairsGet(functional_tools[i].e, "name")
                        # PairsGet(functional_tools[j].e, "name")

(***************************************************************************)
(* Further properties of the dispatch path (under SpecDispatch) and of the *)
(* receive pipeline (under Spec).                                          *)
(***************************************************************************)
\* the call failed with a capability error: the registry does not know the
\* name, or the provider raised
CapabilityError == cur.error \in {"ValueError: Unknown tool", "ProviderError"}

\* C25: a capability error (unknown tool or provider failure) does not end
\* the run: an error response is sent for the call, the next function call
\* of the same request is dispatched, and after the last one the receive
\* pipeline is back at the stream of inbound messages.
C25_CapabilityErrorRecovered ==
    /\ [](CapabilityError =>
            /\ recv_pc = "respond" \/ recv_pc = "recv"
            /\ cur.responses = << [id |-> cur.id, name |-> cur.name,
                                   body |-> "error"] >>)
    /\ [][(CapabilityError /\ recv_pc = "respond") =>
            IF fcs = << >> THEN recv_pc' = "recv"
            ELSE /\ cur'.id = Head(fcs).id
                 /\ recv_pc' \in {"call", "respond"}
                 /\ "TOOL_CALL_START" \in Elems(cur'.notes)]_vars

\* C28: for each function call the order of events is: TOOL_CALL_START
\* with the final arguments, the registry invocation with those arguments,
\* exactly one of TOOL_CALL_RESULT and TOOL_CALL_ERROR, the response to the
\* session; the next function call is taken up only after that response.
C28_DispatchOrder ==
    /\ [](recv_pc = "call" =>
            /\ Filter(cur.notes, ToolNotes) = << "TOOL_CALL_START" >>
            /\ cur.provider_args = cur.call_args
            /\ cur.responses = << >>)
    /\ [](Handled =>
            /\ Filter(cur.notes, ToolNotes)
                  \in { << "TOOL_CALL_START", "TOOL_CALL_RESULT" >>,
                        << "TOOL_CALL_START", "TOOL_CALL_ERROR" >> }
            /\ Len(cur.responses) = 1)
    /\ [][(cur'.id # cur.id /\ cur.id # "none")
            => Len(cur.responses) = 1]_vars

\* C27: an inbound audio message pushes its frame to the inbound queue and
\* sets speaking, and PLAYBACK_START is emitted for it exactly if speaking
\* was false just before: the notifications of a turn never hold two
\* PLAYBACK_START in a row.
C27_StartOnlyOnTransition ==
    /\ [][Len(audio_in_queue') > Len(audio_in_queue) =>
            /\ audio_in_queue' = Append(audio_in_queue, "pcm")
            /\ playing'
            /\ turn_pb' = IF playing THEN TurnPbNow
                          ELSE Append(TurnPbNow, "PLAYBACK_START")]_vars
    /\ [](\A i \in DOMAIN turn_pb :
             (i > 1 /\ turn_pb[i] = "PLAYBACK_START")
                => turn_pb[i - 1] = "PLAYBACK_END")

\* two audio messages in one turn, speaking cleared between them by the
\* playback pipeline: each got its start notification
C27_Witness ==
    /\ turn_msgs = << "audio", "audio" >>
    /\ turn_pb = << "PLAYBACK_START", "PLAYBACK_END", "PLAYBACK_START" >>
    /\ playing

(***************************************************************************)
(* Further properties of the status poller (under SpecPoll).               *)
(***************************************************************************)
\* the step on which a cycle that has queried the tracked projects
\* publishes
QueriedCycleEnds == CycleEnds /\ poll_pc = "query"
\* the projects the cycle has queried with success, without it
Succeeded(q) == { p \in DOMAIN q : q[p] }
Failed(q) == { p \in DOMAIN q : ~q[p] }
\* the view holds the payload of project p
Shows(view, p) ==
    Basename(p) \in DOMAIN view /\ view[Basename(p)].project = p

\* C26: within one poll cycle a failed status query does not abort the
\* cycle: every tracked project is queried in that cycle and the payload
\* of each query that succeeded is in the view the cycle publishes.
C26_FailedQuerySkipped ==
    [][(QueriedCycleEnds /\ Failed(poll_queried') # {}) =>
         /\ DOMAIN poll_queried' = tracked_projects
         /\ \A p \in Succeeded(poll_queried') : Shows(status_data', p)]_vars

\* C29: the view maps each project to the payload of its last successful
\* query: a project (alone of its name) that the view shows and whose
\* query fails in a cycle where the query of another succeeds is still in
\* the view the cycle publishes, with the payload it had.
C29_LastSuccessfulPayloadKept ==
    [][QueriedCycleEnds =>
         \A p \in Failed(poll_queried') :
            (/\ Succeeded(poll_queried') # {}
             /\ Shows(status_data, p)
             /\ \A q \in tracked_projects :
                   Basename(q) = Basename(p) => q = p)
            => /\ Shows(status_data', p)
               /\ status_data'[Basename(p)] = status_data[Basename(p)]]_vars

\* C30: the view is replaced as a whole: it changes only on the step that
\* ends a cycle, to the empty view or to the view of all the queries that
\* succeeded in the cycle, and on an injection, to the view with the
\* injected payload; no step of a running cycle shows a part of its merge.
C30_ViewReplacedAtomically ==
    [][status_data' # status_data =>
         \/ /\ CycleEnds
            /\ \/ status_data' = EmptyDict
               \/ DOMAIN status_data'
                     = { Basename(p) : p \in Succeeded(poll_queried') }
         \/ /\ poll_pc' = poll_pc
            /\ merged' = merged
            /\ \E p \in Projects : \E d \in Payloads(p) :
                  status_data' = DictSet(status_data, Basename(p), d)]_vars

\* a running cycle has merged the payload of one project and has another
\* to query, and the view is the one of before, with other entries
C30_Witness ==
    /\ poll_pc = "query"
    /\ merged # EmptyDict
    /\ status_data # EmptyDict
    /\ DOMAIN merged # DOMAIN status_data

\* a step that changes the view and ends no cycle: an injection
Injected == status_data' # status_data /\ ~CycleEnds

\* C32: the injection of a result payload for one project through
\* refresh_now(data) replaces the entry of that project only: the view
\* then shows the payload, the entry of every other project is as it was,
\* and no poll is started.
C32_InjectionReplacesOneEntry ==
    [][Injected =>
         /\ \E p \in Projects :
               /\ Shows(status_data', p)
               /\ \A q \in Projects \ {p} :
                     Shows(status_data, q)
                     => /\ Shows(status_data', q)
                        /\ status_data'[Basename(q)]
                              = status_data[Basename(q)]
         /\ UNCHANGED << poll_pc, poll_todo, merged, poll_queried >>]_vars

\* the receive pipeline goes on to a function call: the first one of a
\* request it takes from the session, or the next one of the request it
\* is handling
BeginsCall ==
    /\ recv_pc \in {"recv", "respond"}
    /\ recv_pc' \in {"call", "respond", "failed"}
    /\ (cur' # cur \/ fcs' # fcs \/ recv_pc' # recv_pc)

\* C38: tool dispatch is single-flight.  The receive pipeline is suspended
\* in the provider call exactly while one is in flight, so there is at
\* most one; while it is in flight no inbound message is processed and no
\* other call is begun: the only step of the receive pipeline is the
\* outcome of that call.  A function call is begun only when the response
\* of the call before it has been sent, and the calls of a request are
\* begun in the order of the request, none of them being left when the
\* next request is taken: the responses are sent in the order in which
\* the function calls arrived.
C38_SingleFlight ==
    /\ []((cur.provider = "pending") <=> (recv_pc = "call"))
    /\ [][(cur.provider = "pending")
            => /\ UNCHANGED << fcs, turn_msgs, turn_pb, turn_closed >>
               /\ cur'.id = cur.id
               /\ cur'.provider_args = cur.provider_args
               /\ cur' # cur => /\ cur'.provider \in {"returned", "raised"}
                                /\ recv_pc' = "respond"]_vars
    /\ [][BeginsCall
            => /\ cur.id # "none"
                  => /\ Len(cur.responses) = 1
                     /\ cur.responses[1].id = cur.id
               /\ recv_pc = "respond"
                  => /\ fcs # << >>
                     /\ cur'.id = Head(fcs).id
                     /\ fcs' = Tail(fcs)
               /\ recv_pc = "recv" => fcs = << >>]_vars

\* the second call of a request is in flight, after the response of the
\* first one was sent
C38_Witness ==
    /\ recv_pc = "call"
    /\ cur.id = "call-2"
    /\ cur.provider = "pending"
    /\ fcs = << >>

\* C36: every value of the commit cache is non-empty and is not "unknown";
\* no step removes a key; and an entry is set or changed only by a result
\* of ralph_status or ralph_changes, to the commit that result carries,
\* under the project of that call, all other entries staying as they were.
C36_CacheEntries ==
    /\ [](\A k \in DOMAIN last_commits :
             last_commits[k] \notin {JNull, "", Unknown})
    /\ [][DOMAIN last_commits \subseteq DOMAIN last_commits']_vars
    /\ [][\A k \in DOMAIN last_commits' :
            (k \notin DOMAIN last_commits \/ last_commits'[k] # last_commits[k])
            => /\ recv_pc = "call"
               /\ cur.name \in {"ralph_changes", "ralph_status"}
               /\ cur'.provider = "returned"
               /\ k = CacheProject(cur.call_args, cur'.result)
               /\ last_commits'[k] = cur'.result.latest_commit]_vars

\* the entry of /p, which held abc123 when the second call was prepared,
\* has been overwritten with the commit of the second call's result
C36_Witness ==
    /\ cur.id = "call-2"
    /\ cur.provider = "returned"
    /\ DictGet(cur.call_args, "since_commit") = "abc123"
    /\ DictGet(cur.call_args, "project_dir") = "/p"
    /\ "/p" \in DOMAIN last_commits
    /\ last_commits["/p"] = JInt

\* C35: the set of tracked entities only grows, and once an entity is
\* tracked no poll cycle takes the no-entities branch again.
C35_TrackedOnlyGrows ==
    /\ [][tracked_projects \subseteq tracked_projects']_vars
    /\ [][(tracked_projects # {} /\ CycleEnds)
          => cycle'.branch \in {"merged", "unmerged"}]_vars

\* two entities are tracked and a cycle that queried them is over
C35_Witness ==
    /\ Cardinality(tracked_projects) >= 2
    /\ poll_pc = "idle"
    /\ cycle.branch = "unmerged"
    /\ DOMAIN poll_queried = tracked_projects

(***************************************************************************)
(* Properties of the user's controls (under SpecUser).                     *)
(***************************************************************************)
\* a step of the receive pipeline that takes a text fragment or a
\* tool-call request from the session, or goes on with the tool call
TextOrToolStep ==
    \/ /\ recv_pc = "recv"
       /\ \E k \in {"text", "tool_call"} :
             turn_msgs' = Append(TurnMsgsNow, k) /\ ~turn_closed'
    \/ /\ recv_pc \in {"call", "respond"}
       /\ (recv_pc' # recv_pc \/ cur' # cur)

\* C33: muted is changed only by toggle_mute: a step that changes it is a
\* toggle_mute call and nothing else, so no step of a pipeline, of the tool
\* dispatch or of send_text_message changes it; and a step that processes
\* a text fragment or a tool-call request leaves speaking as it is.
C33_MutedOnlyByToggle ==
    /\ [][muted' # muted =>
            /\ toggle' # toggle
            /\ toggle'.before = muted
            /\ toggle'.ret = muted'
            /\ UNCHANGED << playing, out_queue, audio_in_queue, listen_pc,
                            send_pc, play_pc, recv_pc, fcs, cur, turn_msgs,
                            text_call >>]_vars
    /\ [][TextOrToolStep => playing' = playing]_vars

\* the user has muted and sent a text, and a tool call is being handled in
\* a turn whose audio is playing
C33_Witness ==
    /\ muted
    /\ toggle.seen = 1
    /\ text_call.delivered
    /\ playing
    /\ turn_msgs = << "audio", "tool_call" >>
    /\ recv_pc = "respond"

(***************************************************************************)
(* Properties of the app (under SpecObserver).                             *)
(***************************************************************************)
\* C31: each tool-start notification for a tool that refers to a project
\* (ralph_status, ralph_launch, ralph_changes, ralph_stop, ralph_logs) with
\* a non-empty project_dir leaves the project in the tracked set and starts
\* a poll at once, without waiting for the interval timer.
C31_ToolStartTracksAndPolls ==
    (/\ handled.event.type = "TOOL_CALL_START"
     /\ handled.event.name \in TrackingTools
     /\ handled.event.project_dir \notin {JNull, ""})
    => /\ handled.event.project_dir \in tracked_projects
       /\ handled.polled

\* C34: the state the app displays is thinking only while a tool call is
\* in flight: once the app has handled the result or the error
\* notification of the call, the displayed state eventually leaves
\* thinking, also when the turn carries no audio.
C34_ThinkingEnds ==
    (/\ handled.event.type \in {"TOOL_CALL_RESULT", "TOOL_CALL_ERROR"}
     /\ status_bar.state = "thinking")
    ~> (status_bar.state # "thinking")

====
